---- MODULE Spec2Model ----
(***************************************************************************)
(* Model of the payment-guide converter: the main-process handler          *)
(* parse-pdf-file (text source selection, field extraction, validation)    *)
(* and the renderer's files list (handleFileSelect, manual review edit,    *)
(* clear).                                                                  *)
(*                                                                          *)
(* A JavaScript string is a sequence of one-character strings, so that the  *)
(* regular expressions of the extractor can be evaluated on it.  A regular  *)
(* expression is a sequence of nodes, matched by a backtracking matcher     *)
(* that follows the ECMAScript priorities (leftmost start, greedy or lazy   *)
(* quantifiers in order).                                                   *)
(***************************************************************************)
EXTENDS Integers, Sequences, FiniteSets, TLC

-----------------------------------------------------------------------------
(* Characters and character classes                                        *)

Digit == {"0", "1", "2", "3", "4", "5", "6", "7", "8", "9"}

UpperAscii == {"A", "B", "C", "D", "E", "F", "G", "H", "I", "J", "K", "L", "M",
               "N", "O", "P", "Q", "R", "S", "T", "U", "V", "W", "X", "Y", "Z"}

LowerAscii == {"a", "b", "c", "d", "e", "f", "g", "h", "i", "j", "k", "l", "m",
               "n", "o", "p", "q", "r", "s", "t", "u", "v", "w", "x", "y", "z"}

\* The letters of the range À-Ú that Portuguese text uses, and their lower case.
UpperAccent == {"À", "Á", "Â", "Ã", "Ç", "É", "Ê", "Í", "Ó", "Ô", "Õ", "Ú"}

LowerAccent == {"à", "á", "â", "ã", "ç", "é", "ê", "í", "ó", "ô", "õ", "ú"}

CasePairs ==
  { <<"A", "a">>, <<"B", "b">>, <<"C", "c">>, <<"D", "d">>, <<"E", "e">>,
    <<"F", "f">>, <<"G", "g">>, <<"H", "h">>, <<"I", "i">>, <<"J", "j">>,
    <<"K", "k">>, <<"L", "l">>, <<"M", "m">>, <<"N", "n">>, <<"O", "o">>,
    <<"P", "p">>, <<"Q", "q">>, <<"R", "r">>, <<"S", "s">>, <<"T", "t">>,
    <<"U", "u">>, <<"V", "v">>, <<"W", "w">>, <<"X", "x">>, <<"Y", "y">>,
    <<"Z", "z">>, <<"À", "à">>, <<"Á", "á">>, <<"Â", "â">>, <<"Ã", "ã">>,
    <<"Ç", "ç">>, <<"É", "é">>, <<"Ê", "ê">>, <<"Í", "í">>, <<"Ó", "ó">>,
    <<"Ô", "ô">>, <<"Õ", "õ">>, <<"Ú", "ú">> }

\* \s, \d, \w of ECMAScript (\w is ASCII only: an accented letter is not a word character).
Space == {" ", "\n", "\r", "\t"}

WordChar == Digit \cup UpperAscii \cup LowerAscii \cup {"_"}

Punct == {".", ",", ":", "/", "-", "€", "º", "°", "_", "\\", "+", "(", ")"}

\* [\s\S]: every character.
AnyChar == Digit \cup UpperAscii \cup LowerAscii \cup UpperAccent \cup LowerAccent
           \cup Space \cup Punct

\* The characters a class matches under the i flag: each letter with its other case.
CI(S) == S \cup {p[2] : p \in {q \in CasePairs : q[1] \in S}}
           \cup {p[1] : p \in {q \in CasePairs : q[2] \in S}}

-----------------------------------------------------------------------------
(* Regular expression nodes                                                *)

\* A character class with a quantifier {min,max}; max = -1 is unbounded.
Cls(S, min, max, lazy) == [t |-> "cls", cs |-> S, min |-> min, max |-> max, lazy |-> lazy]

One(S)      == <<Cls(S, 1, 1, FALSE)>>
Opt(S)      == <<Cls(S, 0, 1, FALSE)>>
Star(S)     == <<Cls(S, 0, -1, FALSE)>>
Plus(S)     == <<Cls(S, 1, -1, FALSE)>>
LazyStar(S) == <<Cls(S, 0, -1, TRUE)>>
LazyPlus(S) == <<Cls(S, 1, -1, TRUE)>>
Rep(S, min, max) == <<Cls(S, min, max, FALSE)>>

\* A literal, case-sensitive or under the i flag: one node, a class per character.
Lit(s)  == <<[t |-> "lit", css |-> [j \in 1..Len(s) |-> {s[j]}]]>>
LitI(s) == <<[t |-> "lit", css |-> [j \in 1..Len(s) |-> CI({s[j]})]]>>

WordB     == <<[t |-> "b"]>>
Open      == <<[t |-> "open"]>>
Close     == <<[t |-> "close"]>>
EndOfText == <<[t |-> "eos"]>>
Alt(alts)     == <<[t |-> "alt", alts |-> alts]>>
Ahead(alts)   == <<[t |-> "la", alts |-> alts]>>
NotAhead(re)  == <<[t |-> "nla", alts |-> <<re>>]>>
Group(re)     == Open \o re \o Close

-----------------------------------------------------------------------------
(* The matcher                                                              *)

Fail == <<>>

\* \b at offset pos (0-based, between text[pos] and text[pos+1]).
IsWordBoundary(text, pos) ==
  LET before == pos >= 1 /\ text[pos] \in WordChar
      after  == pos < Len(text) /\ text[pos + 1] \in WordChar
  IN  before # after

Least(S)    == CHOOSE m \in S : \A o \in S : m <= o
Greatest(S) == CHOOSE m \in S : \A o \in S : m >= o

\* How many characters from offset pos on are in cs, at most limit.
RunLen(text, pos, cs, limit) ==
  LET stop == Least({j \in (pos + 1)..Len(text) : text[j] \notin cs} \cup {Len(text) + 1})
      run  == stop - pos - 1
  IN  IF run < limit THEN run ELSE limit

\* Of the results a quantifier's counts lead to (Fail or a match), the one of
\* the first count tried that is no Fail: the smallest count when lazy, the largest
\* when greedy.
FirstOf(rest, lazy) ==
  LET ok == {c \in DOMAIN rest : rest[c] # Fail}
  IN  IF ok = {} THEN Fail
      ELSE rest[IF lazy THEN Least(ok) ELSE Greatest(ok)]

RECURSIVE MatchAt(_, _, _, _, _)
RECURSIVE TryAlts(_, _, _, _, _, _)
RECURSIVE AnyAlt(_, _, _, _)

\* Match re[k..] at offset pos; <<end, capture start, capture end>> of the
\* first successful path in backtracking order, or Fail.  A quantifier tries
\* its counts from the largest down (greedy) or from the smallest up (lazy):
\* the first count that lets the rest match is the largest, or the smallest,
\* of those that do.
MatchAt(text, re, k, pos, cap) ==
  IF k > Len(re) THEN <<pos, cap[1], cap[2]>>
  ELSE LET n == re[k] IN
    CASE n.t = "lit" ->
           IF pos + Len(n.css) <= Len(text)
              /\ \A j \in 1..Len(n.css) : text[pos + j] \in n.css[j]
           THEN MatchAt(text, re, k + 1, pos + Len(n.css), cap)
           ELSE Fail
      [] n.t = "cls" ->
           LET run == RunLen(text, pos, n.cs,
                             IF n.max < 0 THEN Len(text) ELSE n.max)
               rest == [c \in n.min..run |-> MatchAt(text, re, k + 1, pos + c, cap)]
           IN  FirstOf(rest, n.lazy)
      [] n.t = "b" ->
           IF IsWordBoundary(text, pos) THEN MatchAt(text, re, k + 1, pos, cap) ELSE Fail
      [] n.t = "open"  -> MatchAt(text, re, k + 1, pos, <<pos, cap[2]>>)
      [] n.t = "close" -> MatchAt(text, re, k + 1, pos, <<cap[1], pos>>)
      [] n.t = "eos" ->
           IF pos = Len(text) THEN MatchAt(text, re, k + 1, pos, cap) ELSE Fail
      [] n.t = "la" ->
           IF AnyAlt(text, n.alts, 1, pos) THEN MatchAt(text, re, k + 1, pos, cap) ELSE Fail
      [] n.t = "nla" ->
           IF AnyAlt(text, n.alts, 1, pos) THEN Fail ELSE MatchAt(text, re, k + 1, pos, cap)
      [] n.t = "alt" -> TryAlts(text, re, k, pos, cap, 1)

\* The alternatives of re[k] in order, each followed by the rest of re.
TryAlts(text, re, k, pos, cap, j) ==
  IF j > Len(re[k].alts) THEN Fail
  ELSE LET r == MatchAt(text, re[k].alts[j] \o SubSeq(re, k + 1, Len(re)), 1, pos, cap)
       IN  IF r # Fail THEN r ELSE TryAlts(text, re, k, pos, cap, j + 1)

\* Does one of the alternatives match at pos (a lookahead)?
AnyAlt(text, alts, j, pos) ==
  IF j > Len(alts) THEN FALSE
  ELSE IF MatchAt(text, alts[j], 1, pos, <<0, 0>>) # Fail THEN TRUE
  ELSE AnyAlt(text, alts, j + 1, pos)

\* The characters a match of re can start with ([any |-> TRUE] when re does
\* not start by consuming a character of a known class).
LeadSet(re) ==
  LET ks == {k \in 1..Len(re) : re[k].t \notin {"open", "b"}}
      n  == re[Least(ks)]
  IN  IF ks = {} THEN [any |-> TRUE]
      ELSE IF n.t = "lit" THEN [any |-> FALSE, cs |-> n.css[1]]
      ELSE IF n.t = "cls" /\ n.min >= 1 THEN [any |-> FALSE, cs |-> n.cs]
      ELSE [any |-> TRUE]

\* The offsets from `from` on where a match can start.
StartOffsets(text, lead, from) ==
  IF lead.any THEN from..Len(text)
  ELSE {p \in from..(Len(text) - 1) : text[p + 1] \in lead.cs}

\* Of the attempts at each start offset (Fail or <<end, capture start, capture
\* end>>), the leftmost match with its start in front, or Fail.
Leftmost(at) ==
  LET starts == {p \in DOMAIN at : at[p] # Fail}
  IN  IF starts = {} THEN Fail
      ELSE <<Least(starts)>> \o at[Least(starts)]

\* RegExp.prototype.exec from offset from: the leftmost match,
\* <<start, end, capture start, capture end>>, or Fail.  Only the offsets
\* whose character can start a match are tried.
Exec(text, re, from) ==
  Leftmost([p \in StartOffsets(text, LeadSet(re), from) |-> MatchAt(text, re, 1, p, <<0, 0>>)])

\* String.prototype.match without the g flag.
Match(text, re) == Exec(text, re, 0)

\* match[1] and match[0] of a successful match.
Group1(text, m) == SubSeq(text, m[3] + 1, m[4])
Whole(text, m)  == SubSeq(text, m[1] + 1, m[2])

RECURSIVE MatchAllFrom(_, _, _)
\* String.prototype.match with the g flag: every match[0], left to right
\* (<<>> where JavaScript gives null).
MatchAllFrom(text, re, m) ==
  IF m = Fail THEN <<>>
  ELSE <<Whole(text, m)>> \o
       MatchAllFrom(text, re, Exec(text, re, IF m[2] > m[1] THEN m[2] ELSE m[2] + 1))

MatchAll(text, re) == MatchAllFrom(text, re, Exec(text, re, 0))

-----------------------------------------------------------------------------
(* String operations of JavaScript used by the program                      *)

\* A property that is absent or holds undefined.
Undefined == <<"undefined">>

\* String.prototype.trim
Trim(s) ==
  IF \A i \in 1..Len(s) : s[i] \in Space THEN <<>>
  ELSE LET a == CHOOSE i \in 1..Len(s) : s[i] \notin Space /\ \A j \in 1..(i - 1) : s[j] \in Space
           b == CHOOSE i \in 1..Len(s) : s[i] \notin Space /\ \A j \in (i + 1)..Len(s) : s[j] \in Space
       IN  SubSeq(s, a, b)

\* s.replace(/[cs]/g, '')
RemoveAll(s, cs) == SelectSeq(s, LAMBDA c : c \notin cs)

\* s.replace(c, d) with a string pattern: the first occurrence only.
ReplaceFirst(s, c, d) ==
  IF \A i \in 1..Len(s) : s[i] # c THEN s
  ELSE LET k == CHOOSE i \in 1..Len(s) : s[i] = c /\ \A j \in 1..(i - 1) : s[j] # c
       IN  [i \in 1..Len(s) |-> IF i = k THEN d ELSE s[i]]

\* s.padStart(n, c)
PadStart(s, n, c) == IF Len(s) >= n THEN s ELSE [i \in 1..(n - Len(s)) |-> c] \o s

\* s.substring(0, n)
Substring0(s, n) == SubSeq(s, 1, IF n < Len(s) THEN n ELSE Len(s))

\* s.includes(t)
Includes(s, t) == Match(s, Lit(t)) # Fail

RECURSIVE Join(_, _)
\* Array.prototype.join
Join(list, sep) ==
  IF list = <<>> THEN <<>>
  ELSE IF Len(list) = 1 THEN list[1]
  ELSE list[1] \o sep \o Join(Tail(list), sep)

-----------------------------------------------------------------------------
(* Numbers.  An amount is a JavaScript number: NaN, or a decimal held       *)
(* exactly as an integer count of 10^-FracDigits units.                     *)

\* Decimal places a number keeps; no input drawn below has more.
FracDigits == 3

RECURSIVE Pow10(_)
Pow10(n) == IF n = 0 THEN 1 ELSE 10 * Pow10(n - 1)

Scale == Pow10(FracDigits)

NaN    == [nan |-> TRUE, v |-> 0]
Num(v) == [nan |-> FALSE, v |-> v]

\* !n (a number is falsy when it is 0 or NaN) and n > 0.
Falsy(n)    == n.nan \/ n.v = 0

DigitSeq == <<"0", "1", "2", "3", "4", "5", "6", "7", "8", "9">>
DigitVal(c) == (CHOOSE d \in 1..10 : DigitSeq[d] = c) - 1

RECURSIVE IntVal(_)
\* The value of a run of digits.
IntVal(ds) == IF ds = <<>> THEN 0 ELSE 10 * IntVal(SubSeq(ds, 1,
      Len(ds) - 1)) + DigitVal(ds[Len(ds)])

\* The fraction digits fs in 10^-FracDigits units (digits past FracDigits are not drawn).
FracVal(fs) ==
  IF Len(fs) >= FracDigits THEN IntVal(SubSeq(fs, 1, FracDigits))
  ELSE IntVal(fs) * Pow10(FracDigits - Len(fs))

\* parseFloat: skips leading white space, then reads the longest prefix
\* [+-]? digits* [. digits*] holding at least one digit; NaN when there is none.
\* (No input drawn below holds an exponent or "Infinity".)
ParseFloat(str) ==
  LET ws   == RunLen(str, 0, Space, Len(str))
      sg   == IF ws < Len(str) /\ str[ws + 1] \in {"+", "-"} THEN 1 ELSE 0
      neg  == sg = 1 /\ str[ws + 1] = "-"
      p    == ws + sg
      ni   == RunLen(str, p, Digit, Len(str))
      dot  == p + ni < Len(str) /\ str[p + ni + 1] = "."
      nf   == IF dot THEN RunLen(str, p + ni + 1, Digit, Len(str)) ELSE 0
      mag  == IntVal(SubSeq(str, p + 1, p + ni)) * Scale
              + FracVal(SubSeq(str, p + ni + 2, p + ni + 1 + nf))
  IN  IF ni = 0 /\ nf = 0 THEN NaN
      ELSE Num(IF neg THEN 0 - mag ELSE mag)

-----------------------------------------------------------------------------
(* The extractor's regular expressions (parse-pdf-file)                     *)

\* [.\s] and [\d.,] and [A-ZÀ-Ú] and [A-ZÀ-Ú\s,.-]
Sep        == {"."} \cup Space
AmountChar == Digit \cup {".", ","}
NameStart  == UpperAscii \cup UpperAccent
NameChar   == NameStart \cup Space \cup {",", ".", "-"}

\* /NÚMERO DO DOCUMENTO[\s\S]*?(\d+\s+\d+)/i
ReDocumentNumber1 ==
  LitI(<<"N", "Ú", "M", "E", "R", "O", " ", "D", "O", " ", "D", "O", "C", "U", "M", "E", "N",
        "T", "O">>) \o LazyStar(AnyChar)
  \o Group(Plus(Digit) \o Plus(Space) \o Plus(Digit))

\* /Documento\s+n[ºo°]?\s*:?\s*(\d+)/i
ReDocumentNumber2 ==
  LitI(<<"D", "o", "c", "u", "m", "e", "n", "t",
        "o">>) \o Plus(Space) \o LitI(<<"n">>) \o Opt(CI({"º", "o", "°"}))
  \o Star(Space) \o Opt({":"}) \o Star(Space) \o Group(Plus(Digit))

\* /NÚMERO DE IDENTIFICAÇÃO FISCAL[\s\S]*?\b(\d{9})\b(?!\d)/i
ReNif1 ==
  LitI(<<"N", "Ú", "M", "E", "R", "O", " ", "D", "E", " ", "I", "D", "E", "N", "T", "I", "F",
        "I", "C", "A", "Ç", "Ã", "O", " ", "F", "I", "S", "C", "A", "L">>) \o LazyStar(AnyChar)
  \o WordB \o Group(Rep(Digit, 9, 9)) \o WordB \o NotAhead(One(Digit))

\* The pattern without the word boundary after the nine digits.
ReNif2Unbounded ==
  LitI(<<"N", "I", "F">>) \o Star(Space) \o Opt({":"}) \o Star(Space)
  \o Group(Rep(Digit, 9, 9))

\* /NIF\s*:?\s*(\d{9})\b/i
ReNif2 ==
  LitI(<<"N", "I", "F">>) \o Star(Space) \o Opt({":"}) \o Star(Space)
  \o Group(Rep(Digit, 9, 9)) \o WordB

\* /\b(\d{9})\b(?!\d)/g
ReNineDigits == WordB \o Group(Rep(Digit, 9, 9)) \o WordB \o NotAhead(One(Digit))

\* new RegExp(`\\b${num}\\b(?!\\d)`)
ReStandalone(num) == WordB \o Lit(num) \o WordB \o NotAhead(One(Digit))

\* /\b([A-ZÀ-Ú][A-ZÀ-Ú\s,.-]+(?:LDA|LIMITADA|SA|UNIPESSOAL|S\.A\.))\b/
ReTaxpayer1 ==
  WordB
  \o Group(One(NameStart) \o Plus(NameChar)
           \o Alt(<<Lit(<<"L", "D", "A">>), Lit(<<"L", "I", "M", "I", "T", "A", "D", "A">>),
                 Lit(<<"S", "A">>), Lit(<<"U", "N", "I", "P", "E", "S", "S", "O", "A", "L">>),
                 Lit(<<"S", ".", "A", ".">>)>>))
  \o WordB

\* /NOME\s*\n+\s*([A-ZÀ-Ú][A-ZÀ-Ú\s,.-]+)/i
ReTaxpayer2 ==
  LitI(<<"N", "O", "M", "E">>) \o Star(Space) \o Plus({"\n"}) \o Star(Space)
  \o Group(One(CI(NameStart)) \o Plus(CI(NameChar)))

\* /Nome\s*:?\s*([A-ZÀ-Ú\s,.-]+?)(?=\s*NIF|$)/i
ReTaxpayer3 ==
  LitI(<<"N", "o", "m", "e">>) \o Star(Space) \o Opt({":"}) \o Star(Space)
  \o Group(LazyPlus(CI(NameChar)))
  \o Ahead(<<Star(Space) \o LitI(<<"N", "I", "F">>), EndOfText>>)

\* /(\d{3}[.\s]\d{3}[.\s]\d{3}[.\s]\d{3}[.\s]\d{3})/i
ReReference1 ==
  Group(Rep(Digit, 3, 3) \o One(Sep) \o Rep(Digit, 3, 3) \o One(Sep) \o Rep(Digit, 3, 3)
        \o One(Sep) \o Rep(Digit, 3, 3) \o One(Sep) \o Rep(Digit, 3, 3))

\* /\b(\d{15})\b/
ReReference2 == WordB \o Group(Rep(Digit, 15, 15)) \o WordB

\* /Refer[êe]ncia\s+para\s+pagamento[\s\S]*?([\d\s.]{15,25})/i
ReReference3 ==
  LitI(<<"R", "e", "f", "e", "r">>) \o One(CI({"ê", "e"})) \o LitI(<<"n", "c", "i",
        "a">>) \o Plus(Space) \o LitI(<<"p", "a", "r", "a">>)
  \o Plus(Space) \o LitI(<<"p", "a", "g", "a", "m", "e", "n", "t", "o">>) \o LazyStar(AnyChar)
  \o Group(Rep(Digit \cup Space \cup {"."}, 15, 25))

\* /(\d{2,3}[.\s]\d{2,3}[.\s]\d{2,3}[.\s]\d{2,3}[.\s]\d{2,3})/i
ReReference4 ==
  Group(Rep(Digit, 2, 3) \o One(Sep) \o Rep(Digit, 2, 3) \o One(Sep) \o Rep(Digit, 2, 3)
        \o One(Sep) \o Rep(Digit, 2, 3) \o One(Sep) \o Rep(Digit, 2, 3))

\* /Linha\s+[ÓO]ptica[\s\S]*?62\s+\d{8}\s+\d\s+\d\s+(\d{11})\s+\d{4}/i
ReLinhaOptica ==
  LitI(<<"L", "i", "n", "h", "a">>) \o Plus(Space) \o One(CI({"Ó", "O"})) \o LitI(<<"p", "t",
        "i", "c", "a">>) \o LazyStar(AnyChar)
  \o Lit(<<"6", "2">>) \o Plus(Space) \o Rep(Digit, 8, 8) \o Plus(Space) \o One(Digit)
  \o Plus(Space) \o One(Digit) \o Plus(Space) \o Group(Rep(Digit, 11, 11))
  \o Plus(Space) \o Rep(Digit, 4, 4)

\* /62\s*10210003\s*6\s*9\s*(\d{11})\s*\d{4}/i
ReIvaReference ==
  Lit(<<"6", "2">>) \o Star(Space) \o Lit(<<"1", "0", "2", "1", "0", "0", "0",
        "3">>) \o Star(Space) \o Lit(<<"6">>)
  \o Star(Space) \o Lit(<<"9">>) \o Star(Space) \o Group(Rep(Digit, 11, 11))
  \o Star(Space) \o Rep(Digit, 4, 4)

\* /VALOR A PAGAR\s+([\d.,]+)/i
ReAmount1 == LitI(<<"V", "A", "L", "O", "R", " ", "A", " ", "P", "A", "G", "A",
      "R">>) \o Plus(Space) \o Group(Plus(AmountChar))

\* /Importância a pagar[\s\S]*?€\s*([\d.,]+)/i
ReAmount2 ==
  LitI(<<"I", "m", "p", "o", "r", "t", "â", "n", "c", "i", "a", " ", "a", " ", "p", "a", "g",
        "a", "r">>) \o LazyStar(AnyChar) \o Lit(<<"€">>) \o Star(Space)
  \o Group(Plus(AmountChar))

\* /IMPORT[ÂA]NCIA\s+A\s+PAGAR[\s\n\r]+([\d.,]+)\s*€?/i
ReAmount7 ==
  LitI(<<"I", "M", "P", "O", "R", "T">>) \o One(CI({"Â", "A"})) \o LitI(<<"N", "C", "I",
        "A">>) \o Plus(Space) \o LitI(<<"A">>)
  \o Plus(Space) \o LitI(<<"P", "A", "G", "A", "R">>) \o Plus(Space) \o Group(Plus(AmountChar))
  \o Star(Space) \o Opt({"€"})

\* /([\d.,]+)\s*€/i
ReAmount8 == Group(Plus(AmountChar)) \o Star(Space) \o Lit(<<"€">>)

\* /Total\s+a\s+Pagar[\s\S]{0,100}€\s*([\d.,]+)/i
ReAmount5 ==
  LitI(<<"T", "o", "t", "a",
        "l">>) \o Plus(Space) \o LitI(<<"a">>) \o Plus(Space) \o LitI(<<"P", "a", "g", "a",
        "r">>)
  \o Rep(AnyChar, 0, 100) \o Lit(<<"€">>) \o Star(Space) \o Group(Plus(AmountChar))

\* /Total\s+a\s+Pagar[\s\n\r]*€?\s*([\d.,]+)/i
ReAmount6 ==
  LitI(<<"T", "o", "t", "a",
        "l">>) \o Plus(Space) \o LitI(<<"a">>) \o Plus(Space) \o LitI(<<"P", "a", "g", "a",
        "r">>)
  \o Star(Space) \o Opt({"€"}) \o Star(Space) \o Group(Plus(AmountChar))

\* /Total\s*:?\s*€?\s*([\d.,]+)/i
ReAmount4 ==
  LitI(<<"T", "o", "t", "a",
        "l">>) \o Star(Space) \o Opt({":"}) \o Star(Space) \o Opt({"€"}) \o Star(Space)
  \o Group(Plus(AmountChar))

\* /€\s*([\d.,]+)/i
ReAmount3 == Lit(<<"€">>) \o Star(Space) \o Group(Plus(AmountChar))

\* \d{4}[-\/]\d{2}[-\/]\d{2}
ReIsoDate ==
  Rep(Digit, 4, 4) \o One({"-", "/"}) \o Rep(Digit, 2, 2) \o One({"-", "/"}) \o Rep(Digit, 2, 2)

\* /Data\s+limite\s+de\s+pagamento\s*:?\s*(\d{4}[-\/]\d{2}[-\/]\d{2})/i
ReDueDate1 ==
  LitI(<<"D", "a", "t", "a">>) \o Plus(Space) \o LitI(<<"l", "i", "m", "i", "t",
        "e">>) \o Plus(Space) \o LitI(<<"d", "e">>)
  \o Plus(Space) \o LitI(<<"p", "a", "g", "a", "m", "e", "n", "t",
        "o">>) \o Star(Space) \o Opt({":"}) \o Star(Space)
  \o Group(ReIsoDate)

\* /Data\s+limite\s*:?\s*(\d{4}[-\/]\d{2}[-\/]\d{2})/i
ReDueDate2 ==
  LitI(<<"D", "a", "t", "a">>) \o Plus(Space) \o LitI(<<"l", "i", "m", "i", "t",
        "e">>) \o Star(Space) \o Opt({":"})
  \o Star(Space) \o Group(ReIsoDate)

\* /C[óo]digo\s+do\s+imposto\s*:?\s*(\d{3})/i
ReTaxCode ==
  LitI(<<"C">>) \o One(CI({"ó", "o"})) \o LitI(<<"d", "i", "g",
        "o">>) \o Plus(Space) \o LitI(<<"d", "o">>)
  \o Plus(Space) \o LitI(<<"i", "m", "p", "o", "s", "t",
        "o">>) \o Star(Space) \o Opt({":"}) \o Star(Space)
  \o Group(Rep(Digit, 3, 3))

\* /Per[íi]odo\s*:?\s*(\d{4}\s*[\/\-]\s*\w+)/i
RePeriod1 ==
  LitI(<<"P", "e", "r">>) \o One(CI({"í", "i"})) \o LitI(<<"o", "d",
        "o">>) \o Star(Space) \o Opt({":"})
  \o Star(Space)
  \o Group(Rep(Digit, 4, 4) \o Star(Space) \o One({"/", "-"}) \o Star(Space) \o Plus(WordChar))

\* /PERÍODO[\s\S]*?(\d{4}\s*[\/\-]\s*\d+T?)/i
RePeriod2 ==
  LitI(<<"P", "E", "R", "Í", "O", "D", "O">>) \o LazyStar(AnyChar)
  \o Group(Rep(Digit, 4, 4) \o Star(Space) \o One({"/", "-"}) \o Star(Space) \o Plus(Digit)
           \o Opt(CI({"T"})))

-----------------------------------------------------------------------------
(* Field extraction (parse-pdf-file, after the text is obtained)            *)

RECURSIVE FirstMatch(_, _)
RECURSIVE OrMatch(_, _, _)
\* m || text.match(r2) || ...
OrMatch(m, text, res) == IF m # Fail THEN m ELSE FirstMatch(text, res)

\* text.match(r1) || text.match(r2) || ...: the first match that is not null.
FirstMatch(text, res) ==
  IF res = <<>> THEN Fail
  ELSE OrMatch(Match(text, Head(res)), text, Tail(res))

\* match ? match[1].trim() : ''
TrimmedGroup(text, m) == IF m # Fail THEN Trim(Group1(text, m)) ELSE <<>>

\* match ? match[1] : ''
GroupOrEmpty(text, m) == IF m # Fail THEN Group1(text, m) ELSE <<>>

ExtractDocumentNumber(text) ==
  TrimmedGroup(text, FirstMatch(text, <<ReDocumentNumber1, ReDocumentNumber2>>))

RECURSIVE FirstStandalone(_, _)
\* for (const num of allNineDigitNumbers) if (standalonePattern.test(text)) { nif = num; break }
FirstStandalone(text, nums) ==
  IF nums = <<>> THEN <<>>
  ELSE IF Match(text, ReStandalone(Head(nums))) # Fail THEN Head(nums)
  ELSE FirstStandalone(text, Tail(nums))

\* if (nifPattern1) nif = nifPattern1[1]; else if (nifPattern2) nif = nifPattern2[1]
\* else if (allNineDigitNumbers) { the first standalone one }
NifOf(text, nifPattern1, nifPattern2, allNineDigitNumbers) ==
  IF nifPattern1 # Fail THEN Group1(text, nifPattern1)
  ELSE IF nifPattern2 # Fail THEN Group1(text, nifPattern2)
  ELSE FirstStandalone(text, allNineDigitNumbers)

ExtractNif(text) ==
  NifOf(text, Match(text, ReNif1), Match(text, ReNif2), MatchAll(text, ReNineDigits))

ExtractTaxpayerName(text) ==
  TrimmedGroup(text, FirstMatch(text, <<ReTaxpayer1, ReTaxpayer2, ReTaxpayer3>>))

\* The reference of the first rule that matches, cleaned as that rule cleans it.
ReferenceOf(text, referenceMatch, referenceMatch2, referenceMatch3, referenceMatch4, linhaOpticaMatch, ivaReferenceMatch) ==
  IF referenceMatch # Fail
    THEN Trim(RemoveAll(Group1(text, referenceMatch), Sep))
  ELSE IF referenceMatch2 # Fail
    THEN Group1(text, referenceMatch2)
  ELSE IF referenceMatch3 # Fail
    THEN Trim(SelectSeq(Group1(text, referenceMatch3), LAMBDA c : c \in Digit))
  ELSE IF referenceMatch4 # Fail
    THEN Trim(RemoveAll(Group1(text, referenceMatch4), Sep))
  ELSE IF linhaOpticaMatch # Fail
    THEN PadStart(Group1(text, linhaOpticaMatch), 15, "0")
  ELSE IF ivaReferenceMatch # Fail
    THEN PadStart(Group1(text, ivaReferenceMatch), 15, "0")
  ELSE <<>>

MatchedReference(text) ==
  ReferenceOf(text, Match(text, ReReference1), Match(text, ReReference2),
              Match(text, ReReference3), Match(text, ReReference4),
              Match(text, ReLinhaOptica), Match(text, ReIvaReference))

\* if (paymentReference && paymentReference.length !== 15) paymentReference = ''
EnsureFifteen(paymentReference) ==
  IF paymentReference # <<>> /\ Len(paymentReference) # 15 THEN <<>> ELSE paymentReference

\* The selection falling back on the optical line when the value of the first
\* matching rule does not have 15 characters.
ExtractPaymentReferenceWithFallback(text) ==
  IF EnsureFifteen(MatchedReference(text)) = <<>> /\ Match(text, ReLinhaOptica) # Fail
  THEN PadStart(Group1(text, Match(text, ReLinhaOptica)), 15, "0")
  ELSE EnsureFifteen(MatchedReference(text))

ExtractPaymentReference(text) == EnsureFifteen(MatchedReference(text))

\* const entity = paymentReference.substring(0, 3)
EntityOf(paymentReference) == Substring0(paymentReference, 3)

\* amountPattern1 || amountPattern2 || amountPattern7 || amountPattern5 ||
\* amountPattern6 || amountPattern4 || amountPattern8 || amountPattern3
AmountMatch(text) ==
  FirstMatch(text, <<ReAmount1, ReAmount2, ReAmount7, ReAmount5, ReAmount6, ReAmount4,
                     ReAmount8, ReAmount3>>)

\* amountMatch[1].replace(/\./g, '').replace(',', '.')
NormalizeAmount(raw) == ReplaceFirst(RemoveAll(raw, {"."}), ",", ".")

\* let amount = 0; if (amountMatch) amount = parseFloat(...)
AmountOf(text, amountMatch) ==
  IF amountMatch # Fail THEN ParseFloat(NormalizeAmount(Group1(text, amountMatch)))
  ELSE Num(0)

ExtractAmount(text) == AmountOf(text, AmountMatch(text))

ExtractDueDate(text) == GroupOrEmpty(text, FirstMatch(text, <<ReDueDate1, ReDueDate2>>))

ExtractTaxCode(text) == GroupOrEmpty(text, Match(text, ReTaxCode))

ExtractPeriod(text) == TrimmedGroup(text, FirstMatch(text, <<RePeriod1, RePeriod2>>))

\* The data object of the handler's result.
DataOf(text, paymentReference) ==
  [documentNumber   |-> ExtractDocumentNumber(text),
   nif              |-> ExtractNif(text),
   taxpayerName     |-> ExtractTaxpayerName(text),
   paymentReference |-> paymentReference,
   entity           |-> EntityOf(paymentReference),
   amount           |-> ExtractAmount(text),
   dueDate          |-> ExtractDueDate(text),
   taxCode          |-> ExtractTaxCode(text),
   period           |-> ExtractPeriod(text)]

ExtractData(text) == DataOf(text, ExtractPaymentReference(text))

FieldReference == <<"R", "e", "f", "e", "r", "ê", "n", "c", "i", "a", " ", "d", "e", " ", "p",
      "a", "g", "a", "m", "e", "n", "t", "o">>
FieldAmount    == <<"V", "a", "l", "o", "r", " ", "a", " ", "p", "a", "g", "a", "r">>
FieldNif       == <<"N", "I", "F">>

\* The check with `amount === 0` in place of `!amount`.
MissingFieldsZeroOnly(data) ==
  (IF data.paymentReference = <<>> THEN <<FieldReference>> ELSE <<>>)
  \o (IF data.amount = Num(0) THEN <<FieldAmount>> ELSE <<>>)
  \o (IF data.nif = <<>> THEN <<FieldNif>> ELSE <<>>)

\* Check for missing essential fields
MissingFields(data) ==
  (IF data.paymentReference = <<>> THEN <<FieldReference>> ELSE <<>>)
  \o (IF Falsy(data.amount) THEN <<FieldAmount>> ELSE <<>>)
  \o (IF data.nif = <<>> THEN <<FieldNif>> ELSE <<>>)

\* The return with the text trimmed before it is attached.
ResultOfTrimmed(text, data, missingFields) ==
  IF Len(missingFields) > 0
  THEN [success       |-> FALSE,
        needsReview   |-> TRUE,
        missingFields |-> missingFields,
        extractedText |-> Trim(text),
        data          |-> data,
        error         |-> <<"C", "a", "m", "p", "o", "s", " ", "e", "m", " ", "f", "a",
              "l", "t", "a", ":", " ">> \o Join(missingFields, <<",", " ">>)]
  ELSE [success |-> TRUE, data |-> data]

\* What the handler returns once it has the text (it does not throw from here on).
ResultOf(text, data, missingFields) ==
  IF Len(missingFields) > 0
  THEN [success       |-> FALSE,
        needsReview   |-> TRUE,
        missingFields |-> missingFields,
        extractedText |-> text,
        data          |-> data,
        error         |-> <<"C", "a", "m", "p", "o", "s", " ", "e", "m", " ", "f", "a",
              "l", "t", "a", ":", " ">> \o Join(missingFields, <<",", " ">>)]
  ELSE [success |-> TRUE, data |-> data]

Validate(text, data) == ResultOf(text, data, MissingFields(data))

ExtractAndValidate(text) == Validate(text, ExtractData(text))

-----------------------------------------------------------------------------
(* ipcMain.handle('parse-pdf-file'): text source selection and result       *)
(*                                                                          *)
(* A document is what the collaborators do with it:                         *)
(*   read   : fs.readFile   [ok |-> TRUE] or [ok |-> FALSE, err |-> thrown] *)
(*   native : pdfParse      [ok |-> TRUE, text |-> ...] or [ok |-> FALSE]   *)
(*   raster : pdfjs/canvas  [ok |-> TRUE] or [ok |-> FALSE, err |-> thrown] *)
(*   ocr    : Tesseract     [ok |-> TRUE, text |-> ...] or                  *)
(*                          [ok |-> FALSE, err |-> thrown]                  *)
(* A thrown value is [isError, message]: an Error object with its message,  *)
(* or another value (a string, as tesseract.js rejects with), whose         *)
(* .message is undefined.                                                   *)

\* if (text.trim().length < 50)
OcrThreshold == 50

ErrorOf(message) == [isError |-> TRUE, message |-> message]
ThrownString     == [isError |-> FALSE, message |-> Undefined]

MsgUnsupportedGraphics == <<"e", "l", "e", "m", "e", "n", "t", "o", "s", " ", "g", "r", "á",
      "f", "i", "c", "o", "s", " ", "n", "ã", "o", " ", "s", "u", "p", "o", "r", "t", "a", "d",
      "o", "s">>
MsgOcrFailed    == <<"N", "ã", "o", " ", "f", "o", "i", " ", "p", "o", "s", "s", "í", "v", "e",
      "l", " ", "e", "x", "t", "r", "a", "i", "r", " ", "t", "e", "x", "t", "o", " ", "d", "o",
      " ", "P", "D", "F", " ", "(", "O", "C", "R", " ", "f", "a", "l", "h", "o", "u", ")">>
MsgOcrPrefix    == <<"O", "C", "R", " ", "f", "a", "i", "l", "e", "d", ":", " ">>
MsgOcrUnknown   == <<"U", "n", "k", "n", "o", "w", "n", " ", "e", "r", "r", "o", "r", " ", "d",
      "u", "r", "i", "n", "g", " ", "t", "e", "x", "t", " ", "r", "e", "c", "o", "g", "n", "i",
      "t", "i", "o", "n">>
MsgParseDefault == <<"E", "r", "r", "o", " ", "a", "o", " ", "p", "r", "o", "c", "e", "s", "s",
      "a", "r", " ", "P", "D", "F">>

\* const data = await pdfParse(buffer); text = data.text || ''
\* } catch (err) { await logger.warn('Text extraction failed', err) }
NativeText(doc) == IF doc.native.ok THEN doc.native.text ELSE <<>>

\* The threshold test without the trim.
NeedsOcrUntrimmed(text) == Len(text) < OcrThreshold

NeedsOcr(text) == Len(Trim(text)) < OcrThreshold

\* catch (tesseractError) { throw new Error(`OCR failed: ${tesseractError.message || '...'}`) }
TesseractCatch(tesseractError) ==
  ErrorOf(MsgOcrPrefix \o
          (IF tesseractError.message # Undefined /\ tesseractError.message # <<>>
           THEN tesseractError.message ELSE MsgOcrUnknown))

\* catch (ocrError) { if (message includes 'elementos gráficos não suportados') throw ocrError
\*                    throw new Error('Não foi possível extrair texto do PDF (OCR falhou)') }
OcrCatch(ocrError) ==
  IF ocrError.message # Undefined /\ ocrError.message # <<>>
     /\ Includes(ocrError.message, MsgUnsupportedGraphics)
  THEN ocrError
  ELSE ErrorOf(MsgOcrFailed)

\* catch (error) { return { success: false,
\*                          error: error instanceof Error ? error.message : '...' } }
HandlerCatch(error) ==
  [success |-> FALSE, error |-> IF error.isError THEN error.message ELSE MsgParseDefault]

\* The OCR step: [ok |-> TRUE, text |-> ocrText, origin], or [ok |-> FALSE, err |-> what it throws].
OcrStep(doc) ==
  IF ~doc.raster.ok THEN [ok |-> FALSE, err |-> OcrCatch(doc.raster.err)]
  ELSE IF ~doc.ocr.ok THEN [ok |-> FALSE, err |-> OcrCatch(TesseractCatch(doc.ocr.err))]
  ELSE [ok |-> TRUE, text |-> doc.ocr.text, origin |-> "ocr"]

\* The text the fields are extracted from: [ok |-> TRUE, text, origin], or the error thrown.
TextSource(doc) ==
  IF ~doc.read.ok THEN [ok |-> FALSE, err |-> doc.read.err]
  ELSE IF NeedsOcr(NativeText(doc)) THEN OcrStep(doc)
  ELSE [ok |-> TRUE, text |-> NativeText(doc), origin |-> "native"]

\* The value the handler's promise resolves to.
ResultFrom(src) == IF src.ok THEN ExtractAndValidate(src.text) ELSE HandlerCatch(src.err)

ParsePdfFile(doc) == ResultFrom(TextSource(doc))

-----------------------------------------------------------------------------
(* The documents the handler is checked on                                  *)

\* Lines every payment guide starts with (57 characters).
TextHeader ==
  <<"A", "u", "t", "o", "r", "i", "d", "a", "d", "e", " ", "T", "r", "i", "b", "u", "t", "á",
      "r", "i", "a", " ", "e", " ", "A", "d", "u", "a", "n", "e", "i", "r", "a", "\n", "D", "o",
      "c", "u", "m", "e", "n", "t", "o", " ", "d", "e", " ", "p", "a", "g", "a", "m", "e", "n",
      "t", "o", "\n">>

\* How the taxpayer number appears: under its header, after "NIF", standalone,
\* not at all, or only as part of an 11-digit number.
NifParts ==
  { <<"N", "Ú", "M", "E", "R", "O", " ", "D", "E", " ", "I", "D", "E", "N", "T", "I", "F", "I",
        "C", "A", "Ç", "Ã", "O", " ", "F", "I", "S", "C", "A", "L", "\n", "1", "2", "3", "4",
        "5", "6", "7", "8", "9", "\n">>,
    <<"N", "I", "F", ":", " ", "2", "2", "3", "4", "5", "6", "7", "8", "9", "\n">>,
    <<"C", "o", "n", "t", "r", "i", "b", "u", "i", "n", "t", "e", " ", "3", "2", "3", "4", "5",
          "6", "7", "8", "9", "\n">>,
    <<>>,
    <<"1", "2", "3", "4", "5", "6", "7", "8", "9", "0", "1", "\n">> }

\* How the payment reference appears: canonical groups, bare 15 digits, after its
\* header (15 digits, 14 digits), looser groups, an IVA optical line, an IVA
\* barcode, not at all.
RefParts ==
  { <<"1", "5", "6", ".", "0", "8", "0", ".", "6", "7", "1", ".", "4", "7", "8", ".", "3", "1",
        "1", "\n">>,
    <<"2", "5", "6", "0", "8", "0", "6", "7", "1", "4", "7", "8", "3", "1", "1", "\n">>,
    <<"R", "e", "f", "e", "r", "ê", "n", "c", "i", "a", " ", "p", "a", "r", "a", " ", "p", "a",
          "g", "a", "m", "e", "n", "t", "o", ":", " ", "3", "5", "6", "0", " ", "8", "0", "6",
          "7", " ", "1", "4", "7", "8", " ", "3", "1", "1", "\n">>,
    <<"R", "e", "f", "e", "r", "ê", "n", "c", "i", "a", " ", "p", "a", "r", "a", " ", "p", "a",
          "g", "a", "m", "e", "n", "t", "o", ":", " ", "3", "5", "6", "0", " ", "8", "0", "6",
          "7", " ", "1", "4", "7", "8", " ", "3", "1", "\n">>,
    <<"1", "5", ".", "6", "0", "8", ".", "0", "6", "7", ".", "1", "4", ".", "7", "8", "\n">>,
    <<"L", "i", "n", "h", "a", " ", "Ó", "p", "t", "i", "c", "a", "\n", "6", "2", " ", "1",
          "0", "2", "1", "0", "0", "0", "3", " ", "6", " ", "9", " ", "1", "2", "5", "3", "3",
          "1", "6", "7", "4", "5", "2", " ", "0", "7", "8", "1", "\n">>,
    <<"6", "2", " ", "1", "0", "2", "1", "0", "0", "0", "3", " ", "6", " ", "9", " ", "2", "2",
          "5", "3", "3", "1", "6", "7", "4", "5", "2", " ", "0", "7", "8", "1", "\n">>,
    <<>> }

\* How the amount appears.
AmountParts ==
  { <<"V", "A", "L", "O", "R", " ", "A", " ", "P", "A", "G", "A", "R", " ", "1", "1", "0", ",",
        "4", "0">>,
    <<"I", "M", "P", "O", "R", "T", "Â", "N", "C", "I", "A", " ", "A", " ", "P", "A", "G", "A",
          "R", "\n", "1", ".", "2", "3", "4", ",", "5", "6", " ", "€">>,
    <<"T", "o", "t", "a", "l", ":", " ", "1", ",", "2", ",", "3">>,
    <<"3", ",", "0", "0", " ", "€">>,
    <<"V", "A", "L", "O", "R", " ", "A", " ", "P", "A", "G", "A", "R", " ", ",">>,
    <<"V", "A", "L", "O", "R", " ", "A", " ", "P", "A", "G", "A", "R", " ", "0", ",", "0",
          "0">>,
    <<"€", " ", "2", "5", ",", "0", "0", "\n", "T", "o", "t", "a", "l", " ", "9", "9", ",",
          "0", "0">>,
    <<>> }

Texts == {TextHeader \o n \o r \o a : n \in NifParts, r \in RefParts, a \in AmountParts}

\* Forty-nine characters that are not white space.
FortyNine == <<"G", "U", "I", "A", "-", "D", "E", "-", "P", "A", "G", "A", "M", "E", "N", "T",
      "O", "-", "A", "U", "T", "O", "R", "I", "D", "A", "D", "E", "-", "T", "R", "I", "B", "U",
      "T", "A", "R", "I", "A", "-", "A", "D", "U", "A", "N", "E", "I", "R", "A">>

\* Texts around the threshold: empty, white space, 49 characters, 49 characters
\* padded with white space to 52, 50 characters.
ShortTexts == {<<>>, <<" ", "\n", " ">>, FortyNine, <<" ">> \o FortyNine \o <<" ", "\n">>}
FiftyText  == FortyNine \o <<"X">>

ReadError   == ErrorOf(<<"E", "N", "O", "E", "N", "T", ":", " ", "n", "o", " ", "s", "u", "c",
      "h", " ", "f", "i", "l", "e", " ", "o", "r", " ", "d", "i", "r", "e", "c", "t", "o", "r",
      "y">>)
RasterErrors ==
  { ErrorOf(<<"N", "ã", "o", " ", "f", "o", "i", " ", "p", "o", "s", "s", "í", "v", "e", "l",
        " ", "c", "o", "n", "v", "e", "r", "t", "e", "r", " ", "P", "D", "F", " ", "p", "a",
        "r", "a", " ", "i", "m", "a", "g", "e", "m">>),
    ErrorOf(<<"I", "n", "v", "a", "l", "i", "d", " ", "P", "D", "F", " ", "s", "t", "r", "u",
          "c", "t", "u", "r", "e">>),
    ErrorOf(<<"P", "D", "F", " ", "c", "o", "m", " ", "e", "l", "e", "m", "e", "n", "t", "o",
          "s", " ", "g", "r", "á", "f", "i", "c", "o", "s", " ", "n", "ã", "o", " ", "s", "u",
          "p", "o", "r", "t", "a", "d", "o", "s", " ", "p", "e", "l", "o", " ", "c", "o", "n",
          "v", "e", "r", "s", "o", "r">>) }
OcrErrors ==
  { ErrorOf(<<"N", "e", "t", "w", "o", "r", "k", " ", "e", "r", "r", "o", "r", " ", "w", "h",
        "i", "l", "e", " ", "f", "e", "t", "c", "h", "i", "n", "g", " ", "p", "o", "r", ".",
        "t", "r", "a", "i", "n", "e", "d", "d", "a", "t", "a", ".", "g", "z">>),
    ErrorOf(<<"P", "D", "F", " ", "c", "o", "m", " ", "e", "l", "e", "m", "e", "n", "t", "o",
          "s", " ", "g", "r", "á", "f", "i", "c", "o", "s", " ", "n", "ã", "o", " ", "s", "u",
          "p", "o", "r", "t", "a", "d", "o", "s", " ", "p", "e", "l", "o", " ", "c", "o", "n",
          "v", "e", "r", "s", "o", "r">>),
    ErrorOf(<<>>),
    ThrownString }

\* What the OCR engine would read on a page whose text layer is used instead.
DecoyText == TextHeader \o <<"N", "I", "F", ":", " ", "9", "9", "9", "9", "9", "9", "9", "9",
      "9", "\n", "9", "9", "9", ".", "9", "9", "9", ".", "9", "9", "9", ".", "9", "9", "9",
      ".", "9", "9", "9", "\n", "V", "A", "L", "O", "R", " ", "A", " ", "P", "A", "G", "A",
      "R", " ", "9", ",", "9", "9">>

\* Texts in which two rules compete: a taxpayer number of 11 digits after "NIF",
\* a canonical reference followed by an optical line, looser groups followed by
\* an optical line.
TextLongNif == TextHeader \o <<"N", "I", "F", ":", " ", "1", "2", "3", "4", "5", "6", "7", "8",
      "9", "0", "1", "\n", "V", "A", "L", "O", "R", " ", "A", " ", "P", "A", "G", "A", "R",
      " ", "5", ",", "0", "0">>
TextCanonicalAndOptical == TextHeader \o <<"N", "I", "F", ":", " ", "2", "2", "3", "4", "5",
      "6", "7", "8", "9", "\n", "R", "e", "f", " ", "1", "5", "6", ".", "0", "8", "0", ".",
      "6", "7", "1", ".", "4", "7", "8", ".", "3", "1", "1", "\n", "L", "i", "n", "h", "a",
      " ", "Ó", "p", "t", "i", "c", "a", "\n", "6", "2", " ", "1", "0", "2", "1", "0", "0",
      "0", "3", " ", "6", " ", "9", " ", "1", "2", "5", "3", "3", "1", "6", "7", "4", "5", "2",
      " ", "0", "7", "8", "1", "\n", "V", "A", "L", "O", "R", " ", "A", " ", "P", "A", "G",
      "A", "R", " ", "5", ",", "0", "0">>
TextLooseAndOptical == TextHeader \o <<"N", "I", "F", ":", " ", "2", "2", "3", "4", "5", "6",
      "7", "8", "9", "\n", "R", "e", "f", " ", "1", "5", ".", "6", "0", "8", ".", "0", "6",
      "7", ".", "1", "4", ".", "7", "8", "\n", "L", "i", "n", "h", "a", " ", "Ó", "p", "t",
      "i", "c", "a", "\n", "6", "2", " ", "1", "0", "2", "1", "0", "0", "0", "3", " ", "6",
      " ", "9", " ", "1", "2", "5", "3", "3", "1", "6", "7", "4", "5", "2", " ", "0", "7", "8",
      "1", "\n", "V", "A", "L", "O", "R", " ", "A", " ", "P", "A", "G", "A", "R", " ", "5",
      ",", "0", "0">>
RuleTexts == {TextLongNif, TextCanonicalAndOptical, TextLooseAndOptical}

NativeOk(t) == [ok |-> TRUE, text |-> t]
NativeThrows == [ok |-> FALSE]
Succeeds == [ok |-> TRUE]
Throws(e) == [ok |-> FALSE, err |-> e]
Recognized(t) == [ok |-> TRUE, text |-> t]

\* The native outcomes that lead to OCR.
NoTextLayer == {NativeThrows} \cup {NativeOk(t) : t \in ShortTexts}

Doc(read, native, raster, ocr) ==
  [read |-> read, native |-> native, raster |-> raster, ocr |-> ocr]

DocsUnreadable == {Doc(Throws(ReadError), NativeThrows, Succeeds, Recognized(DecoyText))}
DocsNative ==
  {Doc(Succeeds, NativeOk(t), Succeeds, Recognized(DecoyText)) :
     t \in Texts \cup {FiftyText} \cup RuleTexts}
  \cup {Doc(Succeeds, NativeOk(DecoyText), r, o) :
          r \in {Succeeds, Throws(ErrorOf(<<"I", "n", "v", "a", "l", "i", "d", " ", "P", "D",
                "F", " ", "s", "t", "r", "u", "c", "t", "u", "r", "e">>))},
          o \in {Throws(ThrownString)}}
DocsRasterFails ==
  {Doc(Succeeds, n, Throws(e), Recognized(DecoyText)) : n \in NoTextLayer, e \in RasterErrors}
DocsOcrFails ==
  {Doc(Succeeds, n, Succeeds, Throws(e)) : n \in NoTextLayer, e \in OcrErrors}
DocsOcrReads ==
  {Doc(Succeeds, NativeThrows, Succeeds, Recognized(t)) : t \in Texts}
  \cup {Doc(Succeeds, n, Succeeds, Recognized(t)) :
          n \in NoTextLayer, t \in ShortTexts \cup {FiftyText, DecoyText}}

Docs == DocsUnreadable \cup DocsNative \cup DocsRasterFails \cup DocsOcrFails \cup DocsOcrReads

-----------------------------------------------------------------------------
(* State.  Two processes share the module: the main process serving one     *)
(* parse-pdf-file call (h...), and the renderer's App component.            *)

VARIABLES
  hdoc,         \* the document at filePath: what each collaborator does with it
  hpc,          \* where the parse-pdf-file call is
  htext,        \* the handler's local `text`
  hcalls,       \* the collaborators invoked so far
  hresult,      \* what the handler returned
  hstatus,      \* the status handleFileSelect writes for that result
  files,        \* useState<PaymentData[]>: the list
  editingFile,  \* useState<{index, file} | null>
  tasks,        \* the handleSelectFiles / handleFileSelect calls in flight
  running,      \* the call whose synchronous block is executing (0: event loop idle)
  crashed,      \* a render threw and React unmounted the tree
  gen,          \* the generate-and-save-sepa call being followed, step by step
  exporting,    \* the handleGenerateFile call in flight in the renderer
  encoded       \* two generateSepaXml calls on one batch: the instants and the documents

hvars == <<hdoc, hpc, htext, hcalls, hresult, hstatus>>
uvars == <<files, editingFile, tasks, running, crashed>>
xvars == <<gen, exporting, encoded>>
vars  == <<hvars, uvars, xvars>>

\* No value yet.
Null == [null |-> TRUE]

-----------------------------------------------------------------------------
(* Object helpers                                                           *)

Has(o, k) == k \in DOMAIN o

\* { ...a, ...b }
Spread(a, b) == [k \in DOMAIN a \cup DOMAIN b |-> IF k \in DOMAIN b THEN b[k] ELSE a[k]]

-----------------------------------------------------------------------------
(* handleFileSelect: what it writes for a parse result                      *)

MsgMissingDefault == <<"C", "a", "m", "p", "o", "s", " ", "e", "m", " ", "f", "a", "l", "t",
      "a">>

\* x || fallback, for a string that may be undefined
OrElse(x, fallback) == IF x = Undefined \/ x = <<>> THEN fallback ELSE x

\* if (result.success && result.data) ... else if (result.needsReview && result.data) ... else
StatusOf(result) ==
  IF result.success /\ Has(result, "data") THEN "success"
  ELSE IF Has(result, "needsReview") /\ result.needsReview /\ Has(result, "data")
       THEN "needs_review"
       ELSE "error"

\* The properties the branch taken spreads over updated[fileIndex].
ResultPatch(result) ==
  CASE StatusOf(result) = "success" ->
         Spread(result.data, [status |-> "success"])
    [] StatusOf(result) = "needs_review" ->
         Spread(result.data,
                [status        |-> "needs_review",
                 error         |-> OrElse(IF Has(result, "error") THEN result.error
                                          ELSE Undefined, MsgMissingDefault),
                 extractedText |-> IF Has(result, "extractedText") THEN result.extractedText
                                   ELSE Undefined])
    [] OTHER ->
         [status |-> "error",
          error  |-> OrElse(IF Has(result, "error") THEN result.error ELSE Undefined,
                            MsgParseDefault)]

-----------------------------------------------------------------------------
(* One parse-pdf-file call, collaborator by collaborator                    *)

HInit ==
  /\ hdoc \in Docs
  /\ hpc = "readFile"
  /\ htext = <<>>
  /\ hcalls = {}
  /\ hresult = Null
  /\ hstatus = ""

\* const buffer = await fs.readFile(filePath)
HReadFile ==
  /\ hpc = "readFile"
  /\ hcalls' = hcalls \cup {"readFile"}
  /\ IF hdoc.read.ok
     THEN hpc' = "pdfParse" /\ UNCHANGED hresult
     ELSE hpc' = "return" /\ hresult' = HandlerCatch(hdoc.read.err)
  /\ UNCHANGED <<hdoc, htext, hstatus, uvars, xvars>>

\* try { text = (await pdfParse(buffer)).text || '' } catch { warn }
\* if (text.trim().length < 50) { OCR }
HPdfParse ==
  /\ hpc = "pdfParse"
  /\ hcalls' = hcalls \cup {"pdfParse"}
  /\ htext' = NativeText(hdoc)
  /\ hpc' = IF NeedsOcr(htext') THEN "rasterize" ELSE "extract"
  /\ UNCHANGED <<hdoc, hresult, hstatus, uvars, xvars>>

\* pdfjs getDocument / getPage / render, canvas.toBuffer
HRasterize ==
  /\ hpc = "rasterize"
  /\ hcalls' = hcalls \cup {"rasterize"}
  /\ IF hdoc.raster.ok
     THEN hpc' = "recognize" /\ UNCHANGED hresult
     ELSE hpc' = "return" /\ hresult' = HandlerCatch(OcrCatch(hdoc.raster.err))
  /\ UNCHANGED <<hdoc, htext, hstatus, uvars, xvars>>

\* Tesseract.createWorker / setParameters / recognize; text = ocrText
HRecognize ==
  /\ hpc = "recognize"
  /\ hcalls' = hcalls \cup {"recognize"}
  /\ IF hdoc.ocr.ok
     THEN hpc' = "extract" /\ htext' = hdoc.ocr.text /\ UNCHANGED hresult
     ELSE /\ hpc' = "return"
          /\ hresult' = HandlerCatch(OcrCatch(TesseractCatch(hdoc.ocr.err)))
          /\ UNCHANGED htext
  /\ UNCHANGED <<hdoc, hstatus, uvars, xvars>>

\* the field patterns, the missing-field check and the return
HExtract ==
  /\ hpc = "extract"
  /\ hcalls' = hcalls \cup {"extract"}
  /\ hresult' = ExtractAndValidate(htext)
  /\ hpc' = "return"
  /\ UNCHANGED <<hdoc, htext, hstatus, uvars, xvars>>

\* const result = await window.electronAPI.parsePdfFile(filePath); the branch taken
HDeliver ==
  /\ hpc = "return"
  /\ hstatus' = ResultPatch(hresult).status
  /\ hpc' = "done"
  /\ UNCHANGED <<hdoc, htext, hcalls, hresult, uvars, xvars>>

HNext ==
  \/ HReadFile
  \/ HPdfParse
  \/ HRasterize
  \/ HRecognize
  \/ HExtract
  \/ HDeliver


-----------------------------------------------------------------------------
(* The renderer: App.tsx                                                    *)

\* How many selections (clicks on the upload area, drops) a run makes, and how
\* many files one selection holds at most.
MaxTasks == 2
MaxSel   == 2

\* The files on disk the user picks from: a guide with a text layer and every
\* field, a guide whose amount is not found, a scan whose OCR fails.
PathComplete == <<"/", "g", "u", "i", "a", "s", "/", "i", "v", "a", ".", "p", "d", "f">>
PathPartial  == <<"/", "g", "u", "i", "a", "s", "/", "i", "r", "c", ".", "p", "d", "f">>
PathScan     == <<"/", "g", "u", "i", "a", "s", "/", "s", "c", "a", "n", ".", "P", "D", "F">>
PathNotes    == <<"/", "g", "u", "i", "a", "s", "/", "n", "o", "t", "a", "s", ".", "t", "x",
      "t">>
UIPaths      == {PathComplete, PathPartial, PathScan}

TextComplete == TextHeader \o <<"N", "I", "F", ":", " ", "2", "2", "3", "4", "5", "6", "7",
      "8", "9", "\n", "R", "e", "f", "e", "r", "ê", "n", "c", "i", "a", ":", " ", "1", "5",
      "6", ".", "0", "8", "0", ".", "6", "7", "1", ".", "4", "7", "8", ".", "3", "1", "1",
      "\n", "V", "A", "L", "O", "R", " ", "A", " ", "P", "A", "G", "A", "R", " ", "1", "1",
      "0", ",", "4", "0">>
TextPartial  == TextHeader \o <<"N", "I", "F", ":", " ", "2", "2", "3", "4", "5", "6", "7",
      "8", "9", "\n", "R", "e", "f", "e", "r", "ê", "n", "c", "i", "a", ":", " ", "1", "5",
      "6", ".", "0", "8", "0", ".", "6", "7", "1", ".", "4", "7", "8", ".", "3", "1", "1",
      "\n">>

FileAt(path) ==
  CASE path = PathComplete -> Doc(Succeeds, NativeOk(TextComplete), Succeeds,
        Recognized(DecoyText))
    [] path = PathPartial  -> Doc(Succeeds, NativeOk(TextPartial), Succeeds,
          Recognized(DecoyText))
    [] path = PathScan     -> Doc(Succeeds, NativeThrows, Succeeds,
                                  Throws(ErrorOf(<<"N", "e", "t", "w", "o", "r", "k", " ", "e",
                                        "r", "r", "o", "r", " ", "w", "h", "i", "l", "e", " ",
                                        "f", "e", "t", "c", "h", "i", "n", "g", " ", "p", "o",
                                        "r", ".", "t", "r", "a", "i", "n", "e", "d", "d", "a",
                                        "t", "a", ".", "g", "z">>)))
    [] OTHER               -> Doc(Throws(ReadError), NativeThrows, Succeeds,
          Recognized(DecoyText))

\* What window.electronAPI.parsePdfFile(path) resolves to, for each file on disk.
ParseResults == [path \in UIPaths |-> ParsePdfFile(FileAt(path))]
parsePdfFile(path) == ParseResults[path]

RECURSIVE SeqsUpTo(_, _)
\* The sequences of 0..n distinct elements of S.
SeqsUpTo(S, n) ==
  IF n = 0 THEN {<<>>}
  ELSE SeqsUpTo(S, n - 1)
       \cup {q \in {Append(s, x) : s \in SeqsUpTo(S, n - 1), x \in S} :
               Len(q) = n /\ \A j, k \in 1..n : q[j] = q[k] => j = k}

\* What the file dialog can return ([] when cancelled) and what can be dropped.
DialogResults == SeqsUpTo(UIPaths, MaxSel)
Drops         == SeqsUpTo(UIPaths \cup {PathNotes}, MaxSel) \ {<<>>}

\* ---- list entries -------------------------------------------------------
\* An entry of the array is a record, a hole (an index never assigned) or
\* undefined (what spreading an array with holes puts in their place).
Hole  == [hole |-> TRUE]
Undef == [undef |-> TRUE]
IsRecord(e) == Has(e, "status")
EmptyObject == <<>>

\* [...prev]
SpreadArray(prev) == [j \in 1..Len(prev) |-> IF Has(prev[j], "hole") THEN Undef ELSE prev[j]]

\* { ...updated[index] } (nothing to spread when the entry is undefined)
ObjectAt(updated, index) ==
  IF index + 1 <= Len(updated) /\ IsRecord(updated[index + 1]) THEN updated[index + 1]
  ELSE EmptyObject

\* updated[index] = value (indices are 0-based; assigning past the end leaves holes)
SetAt(updated, index, value) ==
  [j \in 1..(IF index + 1 > Len(updated) THEN index + 1 ELSE Len(updated)) |->
     IF j = index + 1 THEN value
     ELSE IF j <= Len(updated) THEN updated[j] ELSE Hole]

\* setFiles(prev => { const updated = [...prev];
\*                    updated[index] = { ...updated[index], ...patch }; return updated })
UpdateAt(prev, index, patch) ==
  SetAt(SpreadArray(prev), index, Spread(ObjectAt(prev, index), patch))

\* files.filter(f => f.status === 'success') throws on an undefined entry
\* (holes are skipped): the render fails and React unmounts the tree.
RenderThrows(list) == \E j \in 1..Len(list) : Has(list[j], "undef")

\* ---- handleFileSelect ---------------------------------------------------
\* The part of s after the last sep (s itself when there is none): s.split(sep).pop()
LastPart(s, sep) ==
  SubSeq(s, Greatest({j \in 1..Len(s) : s[j] = sep} \cup {0}) + 1, Len(s))

\* path.split('/').pop() || path.split('\\').pop() || path
FileName(path) ==
  IF LastPart(path, "/") # <<>> THEN LastPart(path, "/")
  ELSE IF LastPart(path, "\\") # <<>> THEN LastPart(path, "\\")
  ELSE path

NewFile(path) ==
  [fileName         |-> FileName(path),
   documentNumber   |-> <<>>,
   nif              |-> <<>>,
   taxpayerName     |-> <<>>,
   paymentReference |-> <<>>,
   entity           |-> <<>>,
   amount           |-> Num(0),
   dueDate          |-> <<>>,
   taxCode          |-> <<>>,
   period           |-> <<>>,
   status           |-> "pending"]

NewFiles(filePaths) == [j \in 1..Len(filePaths) |-> NewFile(filePaths[j])]

IdleTask == [pc |-> "idle", filePaths |-> <<>>, length |-> 0, i |-> 0]
IdleTasks == {t \in DOMAIN tasks : tasks[t].pc = "idle"}

\* The user can act on the page: no synchronous block is running, the tree is
\* mounted, and the modal's overlay does not cover the page.
PageIdle == running = 0 /\ ~crashed /\ editingFile = Null

\* const fileIndex = files.length + i, files being the list of the render the
\* handler was created in
FileIndex(t) == tasks[t].length + tasks[t].i

\* onClick of the upload area: handleSelectFiles starts and awaits the dialog.
handleSelectFiles ==
  /\ PageIdle
  /\ IdleTasks # {}
  /\ tasks' = [tasks EXCEPT ![Least(IdleTasks)] =
                 [pc |-> "dialog", filePaths |-> <<>>, length |-> Len(files), i |-> 0]]
  /\ UNCHANGED <<files, editingFile, running, crashed, hvars, xvars>>

\* selectPdfFiles resolves: if (filePaths.length > 0) await handleFileSelect(filePaths)
selectPdfFilesReturns(t, filePaths) ==
  /\ running = 0 /\ ~crashed
  /\ tasks[t].pc = "dialog"
  /\ IF Len(filePaths) > 0
     THEN /\ tasks' = [tasks EXCEPT ![t].pc = "append", ![t].filePaths = filePaths]
          /\ running' = t
     ELSE /\ tasks' = [tasks EXCEPT ![t].pc = "done"]
          /\ UNCHANGED running
  /\ UNCHANGED <<files, editingFile, crashed, hvars, xvars>>

\* file.name.toLowerCase().endsWith('.pdf')
IsPdf(path) ==
  /\ Len(FileName(path)) >= 4
  /\ SubSeq(FileName(path), Len(FileName(path)) - 3, Len(FileName(path)))
       \in {<<".", p, d, f>> : p \in {"p", "P"}, d \in {"d", "D"}, f \in {"f", "F"}}

\* onDrop: the dropped PDF files go to handleFileSelect
handleDrop(droppedFiles) ==
  /\ PageIdle
  /\ IdleTasks # {}
  /\ SelectSeq(droppedFiles, IsPdf) # <<>>
  /\ tasks' = [tasks EXCEPT ![Least(IdleTasks)] =
                 [pc |-> "append", filePaths |-> SelectSeq(droppedFiles, IsPdf),
                  length |-> Len(files), i |-> 0]]
  /\ running' = Least(IdleTasks)
  /\ UNCHANGED <<files, editingFile, crashed, hvars, xvars>>

\* setFiles(prev => [...prev, ...newFiles])
FileSelectAppend(t) ==
  /\ running = t
  /\ tasks[t].pc = "append"
  /\ files' = SpreadArray(files) \o NewFiles(tasks[t].filePaths)
  /\ tasks' = [tasks EXCEPT ![t].pc = "mark"]
  /\ UNCHANGED <<editingFile, running, crashed, hvars, xvars>>

\* setFiles(status: 'processing' at fileIndex); parsePdfFile(filePath) is called
\* and the handler awaits it.
FileSelectProcessing(t) ==
  /\ running = t
  /\ tasks[t].pc = "mark"
  /\ files' = UpdateAt(files, FileIndex(t), [status |-> "processing"])
  /\ tasks' = [tasks EXCEPT ![t].pc = "await"]
  /\ running' = 0
  /\ crashed' = RenderThrows(files')
  /\ UNCHANGED <<editingFile, hvars, xvars>>

\* parsePdfFile resolves: the branch for the result writes at fileIndex, and
\* the loop goes on to the next path or the handler ends.
FileSelectResult(t) ==
  /\ running = 0 /\ ~crashed
  /\ tasks[t].pc = "await"
  /\ files' = UpdateAt(files, FileIndex(t),
                       ResultPatch(parsePdfFile(tasks[t].filePaths[tasks[t].i + 1])))
  /\ IF tasks[t].i + 1 < Len(tasks[t].filePaths)
     THEN /\ tasks' = [tasks EXCEPT ![t].pc = "mark", ![t].i = @ + 1]
          /\ running' = t
          /\ UNCHANGED crashed
     ELSE /\ tasks' = [tasks EXCEPT ![t].pc = "done"]
          /\ running' = 0
          /\ crashed' = RenderThrows(files')
  /\ UNCHANGED <<editingFile, hvars, xvars>>

\* ---- the rest of the page -----------------------------------------------
\* "Limpar Lista" (rendered when files.length > 0)
handleClearFiles ==
  /\ PageIdle
  /\ Len(files) > 0
  /\ files' = <<>>
  /\ UNCHANGED <<editingFile, tasks, running, crashed, hvars, xvars>>

\* "Editar" (rendered on rows whose status is needs_review)
handleEditFile(index) ==
  /\ PageIdle
  /\ index + 1 \in 1..Len(files)
  /\ IsRecord(files[index + 1])
  /\ files[index + 1].status = "needs_review"
  /\ editingFile' = [index |-> index, file |-> files[index + 1]]
  /\ UNCHANGED <<files, tasks, running, crashed, hvars, xvars>>

RECURSIVE NatToString(_)
NatToString(n) ==
  IF n < 10 THEN <<DigitSeq[n + 1]>> ELSE NatToString(n \div 10) \o <<DigitSeq[(n % 10) + 1]>>

\* The fraction digits of v without trailing zeros.
FractionDigits(digits) ==
  SubSeq(digits, 1, Greatest({j \in 1..Len(digits) : digits[j] # "0"} \cup {0}))

Magnitude(v) == IF v < 0 THEN 0 - v ELSE v

\* Number.prototype.toString
NumToString(n) ==
  IF n.nan THEN <<"N", "a", "N">>
  ELSE (IF n.v < 0 THEN <<"-">> ELSE <<>>)
       \o NatToString(Magnitude(n.v) \div Scale)
       \o (IF Magnitude(n.v) % Scale = 0 THEN <<>>
           ELSE <<".">> \o FractionDigits(PadStart(NatToString(Magnitude(n.v) % Scale),
                                                   FracDigits, "0")))

\* useState({ nif: file.nif, ..., amount: file.amount.toString(), ... })
InitialForm(file) ==
  [nif              |-> file.nif,
   taxpayerName     |-> file.taxpayerName,
   paymentReference |-> file.paymentReference,
   amount           |-> NumToString(file.amount),
   dueDate          |-> file.dueDate,
   documentNumber   |-> file.documentNumber]

\* What the user types over a field of the form (the NIF input has maxLength 9).
TypedNif       == {<<" ">>}
TypedReference == {<<"1", "2", "3">>}
TypedAmount    == {<<"2", "5", ",", "5">>, <<"a", "b", "c">>}

\* The forms the user can have in front of them when they submit.
FormsOf(initial) ==
  {[initial EXCEPT !.nif = n, !.paymentReference = r, !.amount = a] :
     n \in {initial.nif} \cup TypedNif,
     r \in {initial.paymentReference} \cup TypedReference,
     a \in {initial.amount} \cup TypedAmount}

\* disabled={!formData.nif || !formData.paymentReference || !formData.amount
\*           || formData.amount === '0'}
SaveDisabled(formData) ==
  \/ formData.nif = <<>>
  \/ formData.paymentReference = <<>>
  \/ formData.amount = <<>>
  \/ formData.amount = <<"0">>

\* parseFloat(...) || 0
OrZero(n) == IF Falsy(n) THEN Num(0) ELSE n

\* formData.paymentReference.replace(/[\s.]/g, '')
CleanReference(paymentReference) == RemoveAll(paymentReference, Sep)

\* The submit without the line that derives entity from the cleaned reference.
handleSubmitKeepsEntity(file, formData) ==
  Spread(file,
         [nif              |-> Trim(formData.nif),
          taxpayerName     |-> Trim(formData.taxpayerName),
          paymentReference |-> CleanReference(formData.paymentReference),
          amount           |-> OrZero(ParseFloat(ReplaceFirst(formData.amount, ",", "."))),
          dueDate          |-> Trim(formData.dueDate),
          documentNumber   |-> Trim(formData.documentNumber),
          status           |-> "success",
          error            |-> Undefined])

\* EditModal.handleSubmit: the record handed to onSave
handleSubmit(file, formData) ==
  Spread(file,
         [nif              |-> Trim(formData.nif),
          taxpayerName     |-> Trim(formData.taxpayerName),
          paymentReference |-> CleanReference(formData.paymentReference),
          entity           |-> Substring0(CleanReference(formData.paymentReference), 3),
          amount           |-> OrZero(ParseFloat(ReplaceFirst(formData.amount, ",", "."))),
          dueDate          |-> Trim(formData.dueDate),
          documentNumber   |-> Trim(formData.documentNumber),
          status           |-> "success",
          error            |-> Undefined])

\* "Guardar": handleSubmit, then handleSaveEdit(updatedFile)
handleSaveEdit(formData) ==
  /\ running = 0 /\ ~crashed
  /\ editingFile # Null
  /\ ~SaveDisabled(formData)
  /\ files' = SetAt(SpreadArray(files), editingFile.index,
                    handleSubmit(editingFile.file, formData))
  /\ editingFile' = Null
  /\ crashed' = RenderThrows(files')
  /\ UNCHANGED <<tasks, running, hvars, xvars>>

\* "Cancelar", the close button, a click on the overlay
handleCancelEdit ==
  /\ running = 0 /\ ~crashed
  /\ editingFile # Null
  /\ editingFile' = Null
  /\ UNCHANGED <<files, tasks, running, crashed, hvars, xvars>>

UInit ==
  /\ files = <<>>
  /\ editingFile = Null
  /\ tasks = [t \in 1..MaxTasks |-> IdleTask]
  /\ running = 0
  /\ crashed = FALSE

\* The forms the open modal can hold.
OpenForms == IF editingFile = Null THEN {} ELSE FormsOf(InitialForm(editingFile.file))


-----------------------------------------------------------------------------
(* generatePS2 (ps2Generator.ts)                                            *)
(*                                                                          *)
(* A Date is [valid, year, month, day] in local time, month as getMonth()   *)
(* gives it (0..11); an Invalid Date answers NaN to every getter.           *)

InvalidDate == [valid |-> FALSE, year |-> 0, month |-> 0, day |-> 0]
DateOf(year, month, day) == [valid |-> TRUE, year |-> year, month |-> month, day |-> day]

\* A whole number as a JavaScript number.
Integer(n) == Num(n * Scale)

getFullYear(date) == IF date.valid THEN Integer(date.year) ELSE NaN
getMonth(date)    == IF date.valid THEN Integer(date.month) ELSE NaN
getDate(date)     == IF date.valid THEN Integer(date.day) ELSE NaN

\* a + b on numbers
Add(a, b) == IF a.nan \/ b.nan THEN NaN ELSE Num(a.v + b.v)

IsDigits(s) == \A j \in 1..Len(s) : s[j] \in Digit

\* new Date(string) for the date-only ISO form YYYY-MM-DD; a string that is
\* not a date gives an Invalid Date.
NewDate(str) ==
  IF /\ Len(str) = 10 /\ str[5] = "-" /\ str[8] = "-"
     /\ IsDigits(SubSeq(str, 1, 4)) /\ IsDigits(SubSeq(str, 6, 7)) /\ IsDigits(SubSeq(str, 9,
           10))
     /\ IntVal(SubSeq(str, 6, 7)) \in 1..12 /\ IntVal(SubSeq(str, 9, 10)) \in 1..31
  THEN DateOf(IntVal(SubSeq(str, 1, 4)), IntVal(SubSeq(str, 6, 7)) - 1, IntVal(SubSeq(str, 9,
        10)))
  ELSE InvalidDate

\* const formatDate = (date) => `${year}${month}${day}`
formatDate(date) ==
  NumToString(getFullYear(date))
  \o PadStart(NumToString(Add(getMonth(date), Integer(1))), 2, "0")
  \o PadStart(NumToString(getDate(date)), 2, "0")

Repeat(c, n) == [j \in 1..n |-> c]

\* const formatNIB = (nib: string | undefined)
formatNIB(nib) ==
  IF nib = Undefined \/ nib = <<>> THEN Repeat("0", 21)
  ELSE IF Len(RemoveAll(nib, Space)) > 21
    THEN SubSeq(RemoveAll(nib, Space), Len(RemoveAll(nib, Space)) - 20, Len(RemoveAll(nib,
          Space)))
  ELSE PadStart(RemoveAll(nib, Space), 21, "0")

\* Math.round(x / unit) for x in units of 1/unit: the nearest whole number, a
\* half going up.
RoundDiv(x, unit) == (2 * x + unit) \div (2 * unit)

\* Math.round(amount * 100)
Cents(amount) == IF amount.nan THEN NaN ELSE Integer(RoundDiv(amount.v * 100, Scale))

\* const formatAmount = (amount: number)
formatAmount(amount) == PadStart(NumToString(Cents(amount)), 13, "0")

\* const formatOrderingReference = (nif: string)
formatOrderingReference(nif) ==
  PadStart(Substring0(SelectSeq(nif, LAMBDA c : c \in Digit), 9), 20, " ")

\* const formatTransferReference = (reference: string)
formatTransferReference(reference) ==
  PadStart(Substring0(RemoveAll(reference, Space \cup {".", "-"}), 14), 14, "0") \o <<"3">>

\* payment.amount in arithmetic: undefined counts as NaN.
NumberAt(payment) == IF Has(payment, "amount") THEN payment.amount ELSE NaN

RECURSIVE Sum(_)
\* payments.reduce((sum, p) => sum + p.amount, 0)
Sum(payments) ==
  IF payments = <<>> THEN Integer(0)
  ELSE Add(Sum(SubSeq(payments, 1, Len(payments) - 1)), NumberAt(payments[Len(payments)]))

\* const executionDate = config.executionDate || now
ExecutionDate(config, now) == IF Has(config, "executionDate") THEN config.executionDate ELSE now

DebtorNIB(config) == IF Has(config, "debtorNIB") THEN config.debtorNIB ELSE Undefined

\* PS21
Ps2Header(config, now) ==
  <<"P", "S", "2">> \o <<"1">> \o <<"4", "7">> \o <<"0", "0">> \o <<"0">>
  \o formatNIB(DebtorNIB(config))
  \o <<"E", "U", "R">>
  \o formatDate(ExecutionDate(config, now))
  \o Repeat(" ", 20)
  \o Repeat("0", 19)

\* PS22; payment.nif.replace and payment.paymentReference.replace throw a
\* TypeError on a payment that has no such property.
DetailThrows(payment) == ~Has(payment, "nif") \/ ~Has(payment, "paymentReference")

Ps2Detail(payment) ==
  <<"P", "S", "2">> \o <<"2">> \o <<"4", "7">> \o <<"0", "0">> \o <<"0">>
  \o Repeat("0", 21)
  \o formatAmount(NumberAt(payment))
  \o formatOrderingReference(payment.nif)
  \o formatTransferReference(payment.paymentReference)
  \o <<"0", "0">>

\* The footer with the count field one character short.
Ps2FooterShortCount(payments) ==
  <<"P", "S", "2">> \o <<"9">> \o <<"4", "7">> \o <<"0", "0">> \o <<"0">>
  \o Repeat("0", 6)
  \o PadStart(NatToString(Len(payments)), 13, "0")
  \o PadStart(NumToString(Cents(Sum(payments))), 13, "0")
  \o Repeat("0", 38)

\* PS29
Ps2Footer(payments) ==
  <<"P", "S", "2">> \o <<"9">> \o <<"4", "7">> \o <<"0", "0">> \o <<"0">>
  \o Repeat("0", 6)
  \o PadStart(NatToString(Len(payments)), 14, "0")
  \o PadStart(NumToString(Cents(Sum(payments))), 13, "0")
  \o Repeat("0", 38)

TypeErrorReplace == ErrorOf(<<"C", "a", "n", "n", "o", "t", " ", "r", "e", "a", "d", " ", "p",
      "r", "o", "p", "e", "r", "t", "i", "e", "s", " ", "o", "f", " ", "u", "n", "d", "e", "f",
      "i", "n", "e", "d", " ", "(", "r", "e", "a", "d", "i", "n", "g", " ", "'", "r", "e", "p",
      "l", "a", "c", "e", "'", ")">>)

\* The lines generatePS2 has pushed once it has handled the first k payments
\* (k = Len(payments) + 1: the footer too), or the TypeError it throws.
Ps2Lines(payments, config, now, k) ==
  <<Ps2Header(config, now)>>
  \o [j \in 1..(IF k > Len(payments) THEN Len(payments) ELSE k) |-> Ps2Detail(payments[j])]
  \o (IF k > Len(payments) THEN <<Ps2Footer(payments)>> ELSE <<>>)

\* generatePS2(payments, config): [ok |-> TRUE, lines] for lines.join('\n'), or
\* what it throws.
generatePS2(payments, config, now) ==
  IF \E j \in 1..Len(payments) : DetailThrows(payments[j])
  THEN [ok |-> FALSE, err |-> TypeErrorReplace]
  ELSE [ok |-> TRUE, lines |-> Ps2Lines(payments, config, now, Len(payments) + 1)]

-----------------------------------------------------------------------------
(* generateSepaXml (sepaGenerator.ts)                                       *)
(*                                                                          *)
(* The document object handed to js2xml, with the elements whose content    *)
(* depends on the batch or the configuration; js2xml writes one element per *)
(* property and one per array entry, in order.                              *)

\* Number.prototype.toFixed(2): the nearest hundredth, a half going to the
\* larger magnitude.
toFixed2(n) ==
  IF n.nan THEN <<"N", "a", "N">>
  ELSE (IF n.v < 0 /\ RoundDiv(Magnitude(n.v) * 100, Scale) > 0 THEN <<"-">> ELSE <<>>)
       \o NatToString(RoundDiv(Magnitude(n.v) * 100, Scale) \div 100)
       \o <<".">>
       \o PadStart(NatToString(RoundDiv(Magnitude(n.v) * 100, Scale) % 100), 2, "0")

\* `${payment.x}`: a property that is absent reads "undefined".
Text(payment, k) == IF Has(payment, k) THEN payment[k] ELSE Undefined

Truthy(payment, k) == Has(payment, k) /\ payment[k] # <<>> /\ payment[k] # Undefined

\* [...].filter(Boolean).join(' | ')
AddtlRmtInf(payment) ==
  Join(<<<<"N", "I", "F", ":", " ">> \o Text(payment, "nif"),
         <<"E", "n", "t", "i", "d", "a", "d", "e", ":", " ">> \o Text(payment, "entity"),
         <<"D", "o", "c", "u", "m", "e", "n", "t", "o", ":", " ">> \o Text(payment,
               "documentNumber")>>
       \o (IF Truthy(payment, "period") THEN <<<<"P", "e", "r", "i", "o", "d", "o", ":",
             " ">> \o payment.period>> ELSE <<>>),
       <<" ", "|", " ">>)

\* payment.amount.toFixed throws a TypeError on a payment that has no amount.
TransactionThrows(payment) == ~Has(payment, "amount")

\* One entry of creditTransferTransactionInformation (the elements that are the
\* same in every transaction, CdtrAgt, Cdtr and CdtrAcct, are left out).
CdtTrfTxInf(payment, index) ==
  [CdtTrfTxInf |->
    [PmtId  |-> [InstrId    |-> <<"T", "X", "N", "-">> \o NatToString(index + 1),
                 EndToEndId |-> IF Truthy(payment, "paymentReference")
                                THEN payment.paymentReference
                                ELSE <<"E", "2", "E", "-">> \o NatToString(index + 1)],
     Amt    |-> [InstdAmt |-> [_attributes |-> [Ccy |-> <<"E", "U", "R">>],
                               _text       |-> toFixed2(payment.amount)]],
     RmtInf |-> [Strd |-> [CdtrRefInf  |-> [Tp  |-> [CdOrPrtry |-> [Cd |-> <<"S", "C", "O",
           "R">>],
                                                     Issr      |-> <<"P", "T", ":", "A", "T">>],
                                             Ref |-> Text(payment, "paymentReference")],
                           AddtlRmtInf |-> AddtlRmtInf(payment)]]]]

\* ---- the instant of the call ----------------------------------------------
\* new Date() as an instant: the date with the time of day, in UTC.
AtTime(date, hours, minutes, seconds, ms) ==
  [valid |-> date.valid, year |-> date.year, month |-> date.month, day |-> date.day,
   hours |-> hours, minutes |-> minutes, seconds |-> seconds, ms |-> ms]

\* The days from 1970-01-01 to the day of date (month counted from 0).
DaysFromEpoch(date) ==
  LET m   == date.month + 1
      y   == IF m <= 2 THEN date.year - 1 ELSE date.year
      era == y \div 400
      yoe == y - era * 400
      doy == (153 * (IF m > 2 THEN m - 3 ELSE m + 9) + 2) \div 5 + date.day - 1
      doe == yoe * 365 + yoe \div 4 - yoe \div 100 + doy
  IN  era * 146097 + doe - 719468

\* The whole seconds of now.getTime()
EpochSeconds(now) ==
  DaysFromEpoch(now) * 86400 + now.hours * 3600 + now.minutes * 60 + now.seconds

\* `${now.getTime()}` with the milliseconds cut off.
TimeStringSeconds(now) == NatToString(EpochSeconds(now))

\* `${now.getTime()}`: the milliseconds since 1970-01-01T00:00:00Z in decimal
TimeString(now) == NatToString(EpochSeconds(now)) \o PadStart(NatToString(now.ms), 3, "0")

\* now.toISOString(): YYYY-MM-DDTHH:mm:ss.sssZ
toISOString(now) ==
  PadStart(NatToString(now.year), 4, "0") \o <<"-">>
  \o PadStart(NatToString(now.month + 1), 2, "0") \o <<"-">>
  \o PadStart(NatToString(now.day), 2, "0") \o <<"T">>
  \o PadStart(NatToString(now.hours), 2, "0") \o <<":">>
  \o PadStart(NatToString(now.minutes), 2, "0") \o <<":">>
  \o PadStart(NatToString(now.seconds), 2, "0") \o <<".">>
  \o PadStart(NatToString(now.ms), 3, "0") \o <<"Z">>

\* str.split(sep)[0]
BeforeFirst(str, sep) ==
  SubSeq(str, 1, Least({j \in 1..Len(str) : str[j] = sep} \cup {Len(str) + 1}) - 1)

MsgId(now)       == <<"M", "S", "G", "-">> \o TimeString(now)
PmtInfId(now)    == <<"P", "M", "T", "-">> \o TimeString(now)
ReqdExctnDt(now) == BeforeFirst(toISOString(now), "T")

defaultConfig ==
  [debtorName |-> <<"E", "M", "P", "R", "E", "S", "A", " ", "E", "X", "E", "M", "P", "L", "O",
        " ", "L", "D", "A">>,
   debtorIBAN |-> <<"P", "T", "5", "0", "0", "0", "0", "0", "0", "0", "0", "0", "0", "0", "0",
         "0", "0", "0", "0", "0", "0", "0", "0", "0", "0">>,
   debtorBIC  |-> <<"B", "B", "P", "I", "P", "T", "P", "L", "X", "X", "X">>]

\* The group header with the number of entries counted one short.
GrpHdrCountsFromZero(payments, config, now) ==
  [MsgId    |-> MsgId(now),
   CreDtTm  |-> toISOString(now),
   NbOfTxs  |-> NatToString(IF Len(payments) = 0 THEN 0 ELSE Len(payments) - 1),
   CtrlSum  |-> toFixed2(Sum(payments)),
   InitgPty |-> [Nm |-> config.debtorName]]

GrpHdr(payments, config, now) ==
  [MsgId    |-> MsgId(now),
   CreDtTm  |-> toISOString(now),
   NbOfTxs  |-> NatToString(Len(payments)),
   CtrlSum  |-> toFixed2(Sum(payments)),
   InitgPty |-> [Nm |-> config.debtorName]]

PmtInf(payments, config, now) ==
  [PmtInfId    |-> PmtInfId(now),
   NbOfTxs     |-> NatToString(Len(payments)),
   CtrlSum     |-> toFixed2(Sum(payments)),
   ReqdExctnDt |-> ReqdExctnDt(now),
   Dbtr        |-> [Nm |-> config.debtorName],
   DbtrAcct    |-> [Id |-> [IBAN |-> config.debtorIBAN]],
   DbtrAgt     |-> [FinInstnId |-> [BIC |-> config.debtorBIC]],
   CdtTrfTxInf |-> [j \in 1..Len(payments) |-> CdtTrfTxInf(payments[j], j - 1)]]

TypeErrorToFixed == ErrorOf(<<"C", "a", "n", "n", "o", "t", " ", "r", "e", "a", "d", " ", "p",
      "r", "o", "p", "e", "r", "t", "i", "e", "s", " ", "o", "f", " ", "u", "n", "d", "e", "f",
      "i", "n", "e", "d", " ", "(", "r", "e", "a", "d", "i", "n", "g", " ", "'", "t", "o", "F",
      "i", "x", "e", "d", "'", ")">>)

\* generateSepaXml(payments, config) called at the instant now (const now = new
\* Date()): [ok |-> TRUE, document], or what it throws.
generateSepaXml(payments, config, now) ==
  IF \E j \in 1..Len(payments) : TransactionThrows(payments[j])
  THEN [ok |-> FALSE, err |-> TypeErrorToFixed]
  ELSE [ok       |-> TRUE,
        document |-> [GrpHdr |-> GrpHdr(payments, config, now),
                      PmtInf |-> PmtInf(payments, config, now)]]

-----------------------------------------------------------------------------
(* ipcMain.handle('generate-and-save-sepa')                                 *)

\* new Date() at the time of the call
Now == DateOf(2026, 10, 4)

\* new Date() inside generateSepaXml
SepaNow == AtTime(Now, 9, 15, 30, 250)

\* const config = ps2Config ? { debtorNIB, executionDate: new Date(...) } : {}
Ps2ConfigOf(ps2Config) ==
  IF ps2Config = Null THEN EmptyObject
  ELSE [debtorNIB |-> ps2Config.debtorNIB, executionDate |-> NewDate(ps2Config.executionDate)]

MsgGenerateDefault(format) == <<"E", "r", "r", "o", " ", "a", "o", " ", "g", "e", "r", "a",
      "r", " ", "f", "i", "c", "h", "e", "i", "r", "o", " ">> \o format

\* catch (error) { return { success: false, error: ... } }
GenerateCatch(error, format) ==
  [success |-> FALSE,
   error   |-> IF error.isError THEN error.message ELSE MsgGenerateDefault(format)]

\* The content as the handler holds it: the lines of lines.join('\n'), or the
\* document handed to js2xml.
Content(generated) ==
  IF Has(generated, "lines") THEN [lines |-> generated.lines]
  ELSE [document |-> generated.document]

\* What showSaveDialog resolves to, and what writeFile does.
Canceled     == [canceled |-> TRUE, filePath |-> <<>>]
Chosen(path) == [canceled |-> FALSE, filePath |-> path]

\* ---- the batches and configurations drawn -------------------------------
MaxBatch == 3

Euros(hundredths) == Num((hundredths * Scale) \div 100)

PayIva ==
  [fileName |-> <<"i", "v", "a", ".", "p", "d", "f">>, documentNumber |-> <<"8", "0", "6", "7",
        " ", "1", "4", "7", "8", "3", "1", "1">>, nif |-> <<"2", "2", "3", "4", "5", "6", "7",
        "8", "9">>,
   taxpayerName |-> <<>>, paymentReference |-> <<"1", "5", "6", "0", "8", "0", "6", "7", "1",
         "4", "7", "8", "3", "1", "1">>, entity |-> <<"1", "5", "6">>,
   amount |-> Euros(11040), dueDate |-> <<>>, taxCode |-> <<>>, period |-> <<"2", "0", "2",
         "5", " ", "/", " ", "0", "9", "T">>,
   status |-> "success"]

\* The same taxpayer, a reference that differs in its last digit, an amount
\* with a fraction of a cent, no document number and no period.
PayIrc ==
  [fileName |-> <<"i", "r", "c", ".", "p", "d", "f">>, documentNumber |-> <<>>, nif |-> <<"2",
        "2", "3", "4", "5", "6", "7", "8", "9">>,
   taxpayerName |-> <<>>, paymentReference |-> <<"1", "5", "6", "0", "8", "0", "6", "7", "1",
         "4", "7", "8", "3", "1", "2">>, entity |-> <<"1", "5", "6">>,
   amount |-> Num((1004 * Scale) \div 1000), dueDate |-> <<>>, taxCode |-> <<>>,
   period |-> <<>>, status |-> "success"]

\* A record as a manual edit can leave it.
PayEdited ==
  [fileName |-> <<"i", "r", "s", ".", "p", "d", "f">>, documentNumber |-> <<>>, nif |-> <<>>,
   taxpayerName |-> <<>>, paymentReference |-> <<"1", "2", "3">>, entity |-> <<"1", "2", "3">>,
   amount |-> Euros(0), dueDate |-> <<>>, taxCode |-> <<>>, period |-> <<>>,
   status |-> "success", error |-> Undefined]

\* An object that is not a PaymentData.
PayStub == [fileName |-> <<"x", ".", "p", "d", "f">>, status |-> "success"]

Payments == {PayIva, PayIrc, PayEdited, PayStub}

RECURSIVE BatchesOf(_)
BatchesOf(n) ==
  IF n = 0 THEN {<<>>}
  ELSE BatchesOf(n - 1) \cup {Append(b, p) : b \in {c \in BatchesOf(n - 1) : Len(c) = n - 1},
                                             p \in Payments}

Batches == BatchesOf(MaxBatch)

Ps2Configs ==
  {Null,
   [debtorNIB |-> <<"0", "0", "3", "5", " ", "0", "6", "5", "1", " ", "0", "0", "0", "0", "0",
         "1", "2", "3", "4", "5", "6", " ", "7", "8">>, executionDate |-> <<"2", "0", "2", "5",
         "-", "0", "1", "-", "2", "0">>],
   [debtorNIB |-> <<"P", "T", "5", "0", "0", "0", "3", "5", "0", "6", "5", "1", "0", "0", "0",
         "0", "0", "1", "2", "3", "4", "5", "6", "7", "8">>, executionDate |-> <<"0", "9", "9",
         "9", "-", "1", "2", "-", "3", "1">>],
   [debtorNIB |-> <<>>, executionDate |-> <<>>]}

SavePath == <<"/", "o", "u", "t", "/", "p", "a", "g", "a", "m", "e", "n", "t", "o", "s", ".",
      "t", "x", "t">>
SaveDialogResults == {Canceled, Chosen(SavePath)}
WriteError == ErrorOf(<<"E", "A", "C", "C", "E", "S", ":", " ", "p", "e", "r", "m", "i", "s",
      "s", "i", "o", "n", " ", "d", "e", "n", "i", "e", "d", ",", " ", "o", "p", "e", "n", " ",
      "'", "/", "o", "u", "t", "/", "p", "a", "g", "a", "m", "e", "n", "t", "o", "s", ".", "t",
      "x", "t", "'">>)
WriteResults == {Succeeds, Throws(WriteError)}

\* ---- the call, step by step ----------------------------------------------
NoCall == [pc |-> "none"]

GInit ==
  /\ gen \in {[pc |-> "generate", payments |-> b, format |-> f, ps2Config |-> c,
               lines |-> <<>>, content |-> Null, filePath |-> <<>>, written |-> Null,
               result |-> Null] :
                b \in Batches, f \in {<<"S", "E", "P", "A">>, <<"P", "S", "2">>},
                      c \in Ps2Configs}
  /\ gen.format = <<"S", "E", "P", "A">> => gen.ps2Config = Null
  /\ exporting = NoCall
  /\ encoded = NoCall

\* generatePS2: the header is pushed
GPs2Header ==
  /\ gen.pc = "generate" /\ gen.format = <<"P", "S", "2">>
  /\ gen' = [gen EXCEPT !.pc = "details",
                        !.lines = <<Ps2Header(Ps2ConfigOf(gen.ps2Config), Now)>>]
  /\ UNCHANGED <<hvars, uvars, exporting, encoded>>

\* payments.forEach: one detail is pushed, or the callback throws and the
\* handler's catch returns
GPs2Detail ==
  /\ gen.pc = "details" /\ Len(gen.lines) <= Len(gen.payments)
  /\ IF DetailThrows(gen.payments[Len(gen.lines)])
     THEN gen' = [gen EXCEPT !.pc = "done",
                             !.result = GenerateCatch(TypeErrorReplace, gen.format)]
     ELSE gen' = [gen EXCEPT !.lines = Append(@, Ps2Detail(gen.payments[Len(gen.lines)]))]
  /\ UNCHANGED <<hvars, uvars, exporting, encoded>>

\* the footer is pushed and lines.join('\n') is the content
GPs2Footer ==
  /\ gen.pc = "details" /\ Len(gen.lines) = Len(gen.payments) + 1
  /\ gen' = [gen EXCEPT !.pc = "dialog",
                        !.lines = Append(@, Ps2Footer(gen.payments)),
                        !.content = [lines |-> Append(gen.lines, Ps2Footer(gen.payments))]]
  /\ UNCHANGED <<hvars, uvars, exporting, encoded>>

\* generateSepaXml(payments)
GSepaXml ==
  /\ gen.pc = "generate" /\ gen.format # <<"P", "S", "2">>
  /\ IF generateSepaXml(gen.payments, defaultConfig, SepaNow).ok
     THEN gen' = [gen EXCEPT !.pc = "dialog",
                             !.content = Content(generateSepaXml(gen.payments, defaultConfig,
                                                                 SepaNow))]
     ELSE gen' = [gen EXCEPT !.pc = "done",
                             !.result = GenerateCatch(generateSepaXml(gen.payments,
                                   defaultConfig,
                                                                      SepaNow).err, gen.format)]
  /\ UNCHANGED <<hvars, uvars, exporting, encoded>>

\* dialog.showSaveDialog resolves
GSaveDialog(dialog) ==
  /\ gen.pc = "dialog"
  /\ IF dialog.canceled \/ dialog.filePath = <<>>
     THEN gen' = [gen EXCEPT !.pc = "done", !.result = [success |-> FALSE]]
     ELSE gen' = [gen EXCEPT !.pc = "write", !.filePath = dialog.filePath]
  /\ UNCHANGED <<hvars, uvars, exporting, encoded>>

\* fs.writeFile(result.filePath, content, 'utf-8')
GWriteFile(write) ==
  /\ gen.pc = "write"
  /\ IF write.ok
     THEN gen' = [gen EXCEPT !.pc = "done", !.written = gen.content,
                             !.result = [success |-> TRUE, filePath |-> gen.filePath]]
     ELSE gen' = [gen EXCEPT !.pc = "done", !.result = GenerateCatch(write.err, gen.format)]
  /\ UNCHANGED <<hvars, uvars, exporting, encoded>>

GNext ==
  \/ GPs2Header
  \/ GPs2Detail
  \/ GPs2Footer
  \/ GSepaXml
  \/ \E dialog \in SaveDialogResults : GSaveDialog(dialog)
  \/ \E write \in WriteResults : GWriteFile(write)

\* ---- generateSepaXml called twice on one batch -----------------------------
\* The instants of the calls: two in the same second, the last millisecond of
\* the day, and the first of the next day.
Instants ==
  {AtTime(Now, 9, 15, 30, 250), AtTime(Now, 9, 15, 30, 251), AtTime(Now, 23, 59, 59, 999),
   AtTime(DateOf(2026, 10, 5), 0, 0, 0, 0)}

SepaConfigs ==
  {defaultConfig,
   [debtorName |-> <<"M", "O", "D", "U", "L", "A", "R", " ", "L", "D", "A">>,
         debtorIBAN |-> <<"P", "T", "5", "0", "0", "0", "3", "5", "0", "6", "5", "1", "0", "0",
         "0", "0", "0", "0", "0", "0", "0", "0", "1", "3", "3">>,
    debtorBIC |-> <<"C", "G", "D", "I", "P", "T", "P", "L">>]}

EInit ==
  /\ gen = NoCall
  /\ exporting = NoCall
  /\ encoded \in {[payments |-> b, config |-> c, nows |-> <<first, second>>, outputs |-> <<>>] :
                    b \in Batches, c \in SepaConfigs, first \in Instants, second \in Instants}

\* generateSepaXml(payments, config) is called, at the instant of its turn
generateSepaXmlCalled ==
  /\ encoded # NoCall
  /\ Len(encoded.outputs) < Len(encoded.nows)
  /\ encoded' = [encoded EXCEPT !.outputs =
                   Append(@, generateSepaXml(encoded.payments, encoded.config,
                                             encoded.nows[Len(@) + 1]))]
  /\ UNCHANGED <<hvars, uvars, gen, exporting>>

-----------------------------------------------------------------------------
(* handleGenerateFile (App.tsx)                                             *)

\* The filter that lets the records in review through as well.
SuccessfulFilesAndReview(list) ==
  SelectSeq(list, LAMBDA f : IsRecord(f) /\ f.status \in {"success", "needs_review"})

\* const successfulFiles = files.filter(f => f.status === 'success'); filter
\* skips the holes of the array
SuccessfulFiles(list) == SelectSeq(list, LAMBDA f : IsRecord(f) /\ f.status = "success")

\* const successCount = files.filter(f => f.status === 'success').length
successCount == Len(SelectSeq(files, LAMBDA f : IsRecord(f) /\ f.status = "success"))

MsgNoneProcessed(format) == <<"N", "e", "n", "h", "u", "m", " ", "f", "i", "c", "h", "e", "i",
      "r", "o", " ", "p", "r", "o", "c", "e", "s", "s", "a", "d", "o", " ", "c", "o", "m", " ",
      "s", "u", "c", "e", "s", "s", "o", " ", "p", "a", "r", "a", " ", "g", "e", "r", "a", "r",
      " ">> \o format
MsgSaved(format, filePath) == <<"F", "i", "c", "h", "e", "i", "r", "o",
      " ">> \o format \o <<" ", "g", "u", "a", "r", "d", "a", "d", "o", " ", "c", "o", "m",
      " ", "s", "u", "c", "e", "s", "s", "o", "!", "\n">> \o filePath
MsgUnknownError == <<"E", "r", "r", "o", " ", "d", "e", "s", "c", "o", "n", "h", "e", "c", "i",
      "d", "o">>

\* result.error || 'Erro desconhecido'
ErrorText(result) ==
  IF Has(result, "error") /\ result.error # <<>> THEN result.error ELSE MsgUnknownError

\* The alert handleGenerateFile shows for the result of the call.
AlertOf(format, result) ==
  IF result.success THEN MsgSaved(format, result.filePath)
  ELSE <<"E", "r", "r", "o", " ", "a", "o", " ", "g", "e", "r", "a", "r", " ", "f", "i", "c",
        "h", "e", "i", "r", "o", " ">> \o format \o <<":", " ">> \o ErrorText(result)

\* The call as it reaches the handler: the renderer passes payments,
\* defaultFileName and format, never a ps2Config.
CallOf(payments, format) ==
  [pc |-> "generate", payments |-> payments, format |-> format, ps2Config |-> Null,
   lines |-> <<>>, content |-> Null, filePath |-> <<>>, written |-> Null, result |-> Null]

\* "Gerar SEPA XML" / "Gerar PS2" (rendered when files.length > 0, disabled when
\* successCount === 0): handleGenerateFile runs up to its await. One export is
\* followed at a time.
handleGenerateFile(format) ==
  /\ PageIdle
  /\ Len(files) > 0 /\ successCount > 0
  /\ exporting.pc # "await"
  /\ IF Len(SuccessfulFiles(files)) = 0
     THEN /\ exporting' = [pc |-> "done", format |-> format, payments |-> <<>>,
                           result |-> Null, alerts |-> <<MsgNoneProcessed(format)>>]
          /\ UNCHANGED gen
     ELSE /\ exporting' = [pc |-> "await", format |-> format,
                           payments |-> SuccessfulFiles(files), result |-> Null,
                           alerts |-> <<>>]
          /\ gen' = CallOf(SuccessfulFiles(files), format)
  /\ UNCHANGED <<hvars, uvars, encoded>>

\* The return that also empties the list once the file is saved.
generateAndSaveSepaReturnsAndClears ==
  /\ running = 0
  /\ exporting.pc = "await" /\ gen.pc = "done"
  /\ exporting' = [exporting EXCEPT !.pc = "done", !.result = gen.result,
                                    !.alerts = Append(@, AlertOf(exporting.format, gen.result))]
  /\ gen' = NoCall
  /\ files' = IF gen.result.success THEN <<>> ELSE files
  /\ UNCHANGED <<hvars, editingFile, tasks, running, crashed, encoded>>

\* generateAndSaveSepa resolves: handleGenerateFile shows its alert and ends.
generateAndSaveSepaReturns ==
  /\ running = 0
  /\ exporting.pc = "await" /\ gen.pc = "done"
  /\ exporting' = [exporting EXCEPT !.pc = "done", !.result = gen.result,
                                    !.alerts = Append(@, AlertOf(exporting.format, gen.result))]
  /\ gen' = NoCall
  /\ UNCHANGED <<hvars, uvars, encoded>>

-----------------------------------------------------------------------------
(* Specifications                                                           *)

\* No export is under way.
XIdle == gen = NoCall /\ exporting = NoCall /\ encoded = NoCall

\* One parse-pdf-file call on each document of Docs.
InitParse == HInit /\ UInit /\ XIdle
SpecParse == InitParse /\ [][HNext]_vars

\* The renderer, on the files of UIPaths.
Next ==
  \/ handleSelectFiles
  \/ \E t \in DOMAIN tasks, filePaths \in DialogResults : selectPdfFilesReturns(t, filePaths)
  \/ \E droppedFiles \in Drops : handleDrop(droppedFiles)
  \/ \E t \in DOMAIN tasks : FileSelectAppend(t)
  \/ \E t \in DOMAIN tasks : FileSelectProcessing(t)
  \/ \E t \in DOMAIN tasks : FileSelectResult(t)
  \/ handleClearFiles
  \/ \E index \in 0..(Len(files) - 1) : handleEditFile(index)
  \/ \E formData \in OpenForms : handleSaveEdit(formData)
  \/ handleCancelEdit

\* No parse-pdf-file call is being followed step by step.
HIdle ==
  /\ hdoc = FileAt(PathNotes)
  /\ hpc = "done"
  /\ htext = <<>>
  /\ hcalls = {}
  /\ hresult = Null
  /\ hstatus = ""

Init == HIdle /\ UInit /\ XIdle
Spec == Init /\ [][Next]_vars

\* One generate-and-save-sepa call on each batch of Batches, in each format.
InitGenerate == HIdle /\ UInit /\ GInit
SpecGenerate == InitGenerate /\ [][GNext]_vars

\* The renderer with its export buttons, and the generate-and-save-sepa calls
\* they make followed step by step.
NextExport ==
  \/ Next
  \/ \E format \in {<<"S", "E", "P", "A">>, <<"P", "S", "2">>} : handleGenerateFile(format)
  \/ GNext
  \/ generateAndSaveSepaReturns

\* How many selections a run with exports makes.
MaxExportTasks == 1

InitExport ==
  /\ HIdle
  /\ files = <<>> /\ editingFile = Null /\ running = 0 /\ crashed = FALSE
  /\ tasks = [t \in 1..MaxExportTasks |-> IdleTask]
  /\ XIdle
SpecExport == InitExport /\ [][NextExport]_vars

\* Two generateSepaXml calls on each batch of Batches, at each pair of Instants.
InitEncode == HIdle /\ UInit /\ EInit
SpecEncode == InitEncode /\ [][generateSepaXmlCalled]_vars

-----------------------------------------------------------------------------
(* Properties of one parse-pdf-file call (SpecParse)                        *)

Done == hpc = "done"

\* The trimmed native text has fewer than 50 characters (a failed native
\* extraction leaves the empty text).
ShortNative == ~hdoc.native.ok \/ Len(Trim(hdoc.native.text)) < 50

OcrEntered == hpc \in {"rasterize", "recognize"} \/ "rasterize" \in hcalls

\* An exception was raised before the field extraction could run.
ExceptionRaised ==
  \/ ~hdoc.read.ok
  \/ "rasterize" \in hcalls /\ ~hdoc.raster.ok
  \/ "recognize" \in hcalls /\ ~hdoc.ocr.ok

\* One of taxId, paymentReference, amount is absent, zero or NaN.
MandatoryMissing(data) ==
  \/ data.nif = <<>>
  \/ data.paymentReference = <<>>
  \/ data.amount.nan
  \/ data.amount.v = 0

\* C4: once parse-pdf-file has returned and handleFileSelect has chosen its
\* branch, the status written is error iff an exception was raised before the
\* extraction ran (file read, rasterization or recognition), needs_review iff
\* the extraction ran and one of taxId, paymentReference, amount is empty, zero
\* or NaN, and success iff the extraction ran and all three are present.
StatusDecision ==
  Done =>
    /\ ExceptionRaised <=> "extract" \notin hcalls
    /\ hstatus = "error" <=> ExceptionRaised
    /\ hstatus = "needs_review" <=> (~ExceptionRaised /\ MandatoryMissing(hresult.data))
    /\ hstatus = "success" <=> (~ExceptionRaised /\ ~MandatoryMissing(hresult.data))

\* A document whose amount text parses to NaN has been sent to review.
StatusDecisionWitness == Done /\ hstatus = "needs_review" /\ hresult.data.amount.nan

\* C9: when the OCR engine throws an Error with a message, the error string
\* parse-pdf-file returns contains that message.
OcrEngineMessagePreserved ==
  (Done /\ "recognize" \in hcalls /\ ~hdoc.ocr.ok
        /\ hdoc.ocr.err.isError /\ hdoc.ocr.err.message # <<>>)
    => Includes(hresult.error, hdoc.ocr.err.message)

\* C10: from the native extraction on, the OCR path is entered iff the trimmed
\* native text has fewer than 50 characters; a failed native extraction leads
\* to OCR and, when OCR succeeds, to a result with data rather than an error;
\* with 50 or more trimmed characters neither the rasterizer nor the OCR engine
\* is invoked and the fields are extracted from the native text.
TextSourceSelection ==
  /\ OcrEntered <=> ("pdfParse" \in hcalls /\ ShortNative)
  /\ (Done /\ hdoc.read.ok /\ ~hdoc.native.ok /\ hdoc.raster.ok /\ hdoc.ocr.ok)
       => ("recognize" \in hcalls /\ htext = hdoc.ocr.text /\ hstatus # "error"
           /\ Has(hresult, "data"))
  /\ ("pdfParse" \in hcalls /\ ~ShortNative)
       => /\ hcalls \cap {"rasterize", "recognize"} = {}
          /\ htext = hdoc.native.text
          /\ Done => (Has(hresult, "data") /\ hstatus # "error")
          /\ (Done /\ Has(hresult, "extractedText")) => hresult.extractedText = hdoc.native.text

\* A native extraction that threw was followed by OCR, whose text gave every field.
TextSourceSelectionWitness ==
  Done /\ ~hdoc.native.ok /\ "recognize" \in hcalls /\ hstatus = "success"

-----------------------------------------------------------------------------
(* Properties of the renderer's list (Spec)                                 *)

RecordIndices == {j \in 1..Len(files) : IsRecord(files[j])}

Terminal == {"success", "error", "needs_review"}

AllowedTransition(old, new) ==
  \/ old = new
  \/ old = "pending" /\ new = "processing"
  \/ old = "processing" /\ new \in Terminal
  \/ old = "needs_review" /\ new = "success"

\* C1: a record enters the list with status pending, and every later change of
\* its status is pending -> processing, processing -> success / error /
\* needs_review, or needs_review -> success.
RecordLifecycle ==
  [][\A j \in 1..Len(files') :
       IsRecord(files'[j]) =>
         IF j <= Len(files) /\ IsRecord(files[j])
         THEN AllowedTransition(files[j].status, files'[j].status)
         ELSE files'[j].status = "pending"]_vars

\* C2: while a selection is being processed, the record at the index each of
\* its results goes to is the record created for that document (its fileName),
\* and the one being parsed is the one marked processing.
ResultsIndexedByPosition ==
  \A t \in DOMAIN tasks :
    tasks[t].pc \in {"mark", "await"} =>
      /\ \A k \in 1..Len(tasks[t].filePaths) :
           /\ tasks[t].length + k <= Len(files)
           /\ IsRecord(files[tasks[t].length + k])
           /\ Has(files[tasks[t].length + k], "fileName")
           /\ files[tasks[t].length + k].fileName = FileName(tasks[t].filePaths[k])
      /\ tasks[t].pc = "await" => files[FileIndex(t) + 1].status = "processing"

\* C3: once every handleFileSelect call has run to its end (every parsePdfFile
\* call has returned), no record of the list is pending or processing.
EveryQueuedRecordEndsTerminal ==
  (\A t \in DOMAIN tasks : tasks[t].pc \in {"idle", "done"})
    => \A j \in RecordIndices : files[j].status \in Terminal

\* C5: every record whose status is success has a taxId, a payment reference
\* and an amount greater than zero.
SuccessHasMandatorySet ==
  \A j \in RecordIndices :
    files[j].status = "success" =>
      /\ Has(files[j], "nif") /\ files[j].nif # <<>>
      /\ Has(files[j], "paymentReference") /\ files[j].paymentReference # <<>>
      /\ Has(files[j], "amount") /\ ~files[j].amount.nan /\ files[j].amount.v > 0

\* C6: the paymentReference of every record is empty or exactly 15 digits.
ReferenceFifteenDigitsOrEmpty ==
  \A j \in RecordIndices :
    Has(files[j], "paymentReference") =>
      \/ files[j].paymentReference = <<>>
      \/ /\ Len(files[j].paymentReference) = 15
         /\ \A k \in 1..15 : files[j].paymentReference[k] \in Digit

FirstThree(s) == SubSeq(s, 1, IF Len(s) < 3 THEN Len(s) ELSE 3)

EntityDerived(r) ==
  /\ Has(r, "entity") <=> Has(r, "paymentReference")
  /\ Has(r, "entity") => r.entity = FirstThree(r.paymentReference)

\* The data parse-pdf-file returns, for every document of Docs.
ParsedData == {ParsePdfFile(doc).data : doc \in {d \in Docs : Has(ParsePdfFile(d), "data")}}

ParsedEntityDerived == \A data \in ParsedData : EntityDerived(data)

\* C7: the entity of every record of the list, of the record the modal is
\* editing, and of the data parse-pdf-file returns, is the first three
\* characters of its paymentReference (empty when the reference is empty); a
\* record has one exactly when it has the other.
EntityIsReferencePrefix ==
  /\ ParsedEntityDerived
  /\ \A j \in RecordIndices : EntityDerived(files[j])
  /\ editingFile # Null => EntityDerived(editingFile.file)

\* A manual edit has stored the reference "123", and with it the entity "123".
EntityIsReferencePrefixWitness ==
  \E j \in RecordIndices :
    /\ files[j].status = "success"
    /\ files[j].paymentReference = <<"1", "2", "3">>
    /\ files[j].entity = <<"1", "2", "3">>

ExtractedFields ==
  {"documentNumber", "nif", "taxpayerName", "paymentReference", "entity", "amount",
   "dueDate", "taxCode", "period"}

\* OCR was entered for the file at path and its rasterization or recognition threw.
OcrFails(path) ==
  /\ FileAt(path).read.ok
  /\ ~FileAt(path).native.ok \/ Len(Trim(FileAt(path).native.text)) < 50
  /\ ~FileAt(path).raster.ok \/ ~FileAt(path).ocr.ok

\* C8: for a file whose native text is short and whose OCR fails, parsePdfFile
\* resolves to success = false with an error message and neither data nor
\* needsReview; and a record whose status is error holds every extracted field
\* at its initial empty or zero value.
OcrFailureLeavesNoPartialRecord ==
  /\ \A path \in UIPaths :
       OcrFails(path) =>
         /\ ~parsePdfFile(path).success
         /\ Has(parsePdfFile(path), "error") /\ parsePdfFile(path).error # <<>>
         /\ ~Has(parsePdfFile(path), "data")
         /\ ~Has(parsePdfFile(path), "needsReview")
  /\ \A j \in RecordIndices :
       files[j].status = "error" =>
         \A k \in ExtractedFields :
           Has(files[j], k) /\ files[j][k] = NewFile(<<>>)[k]


-----------------------------------------------------------------------------
(* The review result of parse-pdf-file (SpecParse)                          *)

Range(s) == {s[j] : j \in DOMAIN s}

\* C11: once parse-pdf-file has extracted the fields: if one of payment
\* reference, amount, NIF is empty, zero or NaN, the result has needsReview,
\* success = false, a non-empty missingFields that names exactly the fields
\* that are missing, the whole text the fields were extracted from as
\* extractedText, and the extracted data; otherwise the result is success = true
\* with the data and neither missingFields nor needsReview nor extractedText.
MissingFieldsReported ==
  (Done /\ "extract" \in hcalls) =>
    /\ Has(hresult, "data")
    /\ hresult.data = ExtractData(htext)
    /\ IF MandatoryMissing(hresult.data)
       THEN /\ ~hresult.success
            /\ Has(hresult, "needsReview") /\ hresult.needsReview
            /\ Has(hresult, "missingFields") /\ Len(hresult.missingFields) > 0
            /\ Range(hresult.missingFields) \subseteq {FieldReference, FieldAmount, FieldNif}
            /\ FieldReference \in Range(hresult.missingFields)
                 <=> hresult.data.paymentReference = <<>>
            /\ FieldAmount \in Range(hresult.missingFields)
                 <=> (hresult.data.amount.nan \/ hresult.data.amount.v = 0)
            /\ FieldNif \in Range(hresult.missingFields) <=> hresult.data.nif = <<>>
            /\ Has(hresult, "extractedText")
            /\ hresult.extractedText = htext
            /\ htext = IF "recognize" \in hcalls THEN hdoc.ocr.text ELSE hdoc.native.text
       ELSE /\ hresult.success
            /\ DOMAIN hresult = {"success", "data"}

\* A text with a reference and an amount but no NIF was sent to review with NIF
\* as the only missing field.
MissingFieldsReportedWitness ==
  /\ Done /\ "extract" \in hcalls
  /\ Has(hresult, "missingFields") /\ hresult.missingFields = <<FieldNif>>
  /\ hresult.data.paymentReference # <<>> /\ hresult.data.amount.v > 0
  /\ hresult.extractedText = htext

-----------------------------------------------------------------------------
(* The raw text on the records of the list (Spec)                           *)

\* C12: a record of the list carries extractedText only while its status is
\* needs_review.
ExtractedTextOnlyInReview ==
  \A j \in RecordIndices :
    Has(files[j], "extractedText") => files[j].status = "needs_review"

-----------------------------------------------------------------------------
(* The PS2 file (SpecGenerate)                                              *)

\* The PS2 lines pushed so far, and the lines of a content that is complete.
Ps2Pushed   == IF gen.format = <<"P", "S", "2">> THEN gen.lines ELSE <<>>
Ps2Complete == gen.format = <<"P", "S", "2">> /\ gen.content # Null
DetailLines == SubSeq(gen.lines, 2, Len(gen.lines) - 1)
FooterLine  == gen.lines[Len(gen.lines)]

\* C15: every line generatePS2 produces is exactly 80 characters long.
Ps2LinesAreEightyChars ==
  \A j \in 1..Len(Ps2Pushed) : Len(Ps2Pushed[j]) = 80

RECURSIVE SumOf(_)
SumOf(ns) == IF ns = <<>> THEN 0 ELSE Head(ns) + SumOf(Tail(ns))

\* C16: the total of the footer (characters 30-42), read as an integer, is the
\* sum of the amounts of the details (characters 31-43 of each).
FooterTotalIsSumOfDetailCents ==
  Ps2Complete =>
    IntVal(SubSeq(FooterLine, 30, 42))
      = SumOf([j \in 1..Len(DetailLines) |-> IntVal(SubSeq(DetailLines[j], 31, 43))])

NineDigits(s)    == Len(s) = 9 /\ IsDigits(s)
FifteenDigits(s) == Len(s) = 15 /\ IsDigits(s)

\* C18: two details whose payments have 9-digit taxIds and 15-digit references
\* and differ in taxId or reference differ in their reference fields
\* (characters 44-78).
ReferenceFieldsLossless ==
  Ps2Complete =>
    \A i, j \in 1..Len(gen.payments) :
      (/\ NineDigits(gen.payments[i].nif) /\ FifteenDigits(gen.payments[i].paymentReference)
       /\ NineDigits(gen.payments[j].nif) /\ FifteenDigits(gen.payments[j].paymentReference)
       /\ <<gen.payments[i].nif, gen.payments[i].paymentReference>>
            # <<gen.payments[j].nif, gen.payments[j].paymentReference>>)
      => SubSeq(DetailLines[i], 44, 78) # SubSeq(DetailLines[j], 44, 78)

-----------------------------------------------------------------------------
(* The SEPA document (SpecGenerate)                                         *)

SepaComplete == gen.format = <<"S", "E", "P", "A">> /\ gen.content # Null
Document     == gen.content.document
Transactions == [j \in 1..Len(Document.PmtInf.CdtTrfTxInf) |-> Document.PmtInf.CdtTrfTxInf[j].CdtTrfTxInf]

\* digits, a point, two digits
TwoDecimals(s) ==
  /\ Len(s) >= 4 /\ s[Len(s) - 2] = "."
  /\ IsDigits(SubSeq(s, 1, Len(s) - 3)) /\ IsDigits(SubSeq(s, Len(s) - 1, Len(s)))
HundredthsOf(s) == IntVal(SubSeq(s, 1, Len(s) - 3)) * 100 + IntVal(SubSeq(s, Len(s) - 1,
      Len(s)))

\* The sum of the amounts of the batch, in units of 10^-FracDigits.
BatchTotal == SumOf([j \in 1..Len(gen.payments) |-> gen.payments[j].amount.v])

\* C19: NbOfTxs of GrpHdr and of PmtInf are the batch size in decimal, which is
\* the number of CdtTrfTxInf entries, entry j being built from payment j; CtrlSum
\* is the same string at both levels, has exactly two decimals, and is the
\* hundredth nearest to the sum of the amounts of the batch.
SepaTotalsMatchBatch ==
  SepaComplete =>
    /\ Document.GrpHdr.NbOfTxs = NatToString(Len(gen.payments))
    /\ Document.PmtInf.NbOfTxs = NatToString(Len(gen.payments))
    /\ Len(Transactions) = Len(gen.payments)
    /\ \A j \in 1..Len(Transactions) :
         /\ Transactions[j].PmtId.InstrId = <<"T", "X", "N", "-">> \o NatToString(j)
         /\ Transactions[j].RmtInf.Strd.CdtrRefInf.Ref = gen.payments[j].paymentReference
         /\ TwoDecimals(Transactions[j].Amt.InstdAmt._text)
         /\ 2 * Magnitude(HundredthsOf(Transactions[j].Amt.InstdAmt._text) * (Scale \div 100)
                            - gen.payments[j].amount.v) <= Scale \div 100
    /\ Document.GrpHdr.CtrlSum = Document.PmtInf.CtrlSum
    /\ TwoDecimals(Document.GrpHdr.CtrlSum)
    /\ 2 * Magnitude(HundredthsOf(Document.GrpHdr.CtrlSum) * (Scale \div 100) - BatchTotal)
         <= Scale \div 100

\* A document of three payments whose sum, 112.408, is written 112.41 (the
\* amounts written one by one add up to 112.40).
SepaTotalsMatchBatchWitness ==
  /\ SepaComplete /\ gen.pc = "done" /\ gen.written = gen.content
  /\ Document.GrpHdr.NbOfTxs = <<"3">> /\ Document.PmtInf.CtrlSum = <<"1", "1", "2", ".", "4",
        "1">>

\* The entries of the additional remittance text whose value is not empty.
RemittanceEntries(payment) ==
  SelectSeq(<<<<<<"N", "I", "F", ":", " ">>, payment.nif>>, <<<<"E", "n", "t", "i", "d", "a",
        "d", "e", ":", " ">>, payment.entity>>,
              <<<<"D", "o", "c", "u", "m", "e", "n", "t", "o", ":", " ">>,
                    payment.documentNumber>>, <<<<"P", "e", "r", "i", "o", "d", "o", ":",
                    " ">>, payment.period>>>>,
            LAMBDA e : e[2] # <<>>)

\* C20: in each transaction the structured reference is the paymentReference of
\* the payment, and the additional text is the entries for taxId, entity,
\* document number and period, in that order, without those whose value is
\* empty, joined by ' | '.
RemittanceOmitsEmptyEntries ==
  SepaComplete =>
    \A j \in 1..Len(Transactions) :
      /\ Transactions[j].RmtInf.Strd.CdtrRefInf.Ref = gen.payments[j].paymentReference
      /\ Transactions[j].RmtInf.Strd.AddtlRmtInf
           = Join([k \in 1..Len(RemittanceEntries(gen.payments[j])) |->
                     RemittanceEntries(gen.payments[j])[k][1]
                       \o RemittanceEntries(gen.payments[j])[k][2]], <<" ", "|", " ">>)

-----------------------------------------------------------------------------
(* The export from the list (SpecExport)                                    *)

RECURSIVE SuccessOnly(_)
\* The entries of a list that are records in status success, in list order.
SuccessOnly(list) ==
  IF list = <<>> THEN <<>>
  ELSE (IF Has(Head(list),
        "status") /\ Head(list).status = "success" THEN <<Head(list)>> ELSE <<>>)
       \o SuccessOnly(Tail(list))

\* C13: a step that invokes generate-and-save-sepa passes it exactly the records
\* of the list whose status is success, in list order, and at least one (with
\* no record in success the handler is not invoked); the payments of a call,
\* which are all an encoder reads, are never records in another status.
ExportPassesSuccessRecords ==
  [][/\ (gen.pc = "none" /\ gen'.pc # "none") =>
          /\ gen'.payments = SuccessOnly(files)
          /\ exporting'.payments = gen'.payments
          /\ Len(gen'.payments) > 0
          /\ gen'.pc = "generate" /\ gen'.lines = <<>> /\ gen'.content = Null
     /\ gen'.pc # "none" =>
          /\ \A j \in 1..Len(gen'.payments) : gen'.payments[j].status = "success"
          /\ gen.pc # "none" => gen'.payments = gen.payments
    ]_vars

\* An export is under way with one record of the list passed and a record in
\* review left out.
ExportPassesSuccessRecordsWitness ==
  /\ exporting.pc = "await" /\ gen.pc = "write"
  /\ Len(gen.payments) = 1 /\ Len(files) = 2
  /\ \E j \in 1..Len(files) : IsRecord(files[j]) /\ files[j].status = "needs_review"

\* C14: every step of an export (handleGenerateFile up to its await, the steps
\* of generate-and-save-sepa, the return and its alert) leaves the list as it
\* is; the handler always goes on to a result object (it never throws) whose
\* success is true exactly when the content was written to the chosen path; the
\* caller gets that result and shows one alert for it, the error text if there
\* is one. The records the list passes always carry the fields the encoders
\* read, so the exports that fail here are those of a cancelled dialog and of a
\* failed write.
ExportLeavesListUnchanged ==
  [][/\ (gen' # gen \/ exporting' # exporting) => files' = files
     /\ gen'.pc \notin {"none", "done"} => (ENABLED GNext)'
     /\ gen'.pc = "done" =>
          /\ Has(gen'.result, "success")
          /\ gen'.result.success <=> (gen'.written # Null)
          /\ gen'.written # Null =>
               /\ gen'.written = gen'.content /\ gen'.content # Null
               /\ gen'.filePath # <<>> /\ gen'.result.filePath = gen'.filePath
     /\ (exporting.pc = "await" /\ exporting'.pc = "done") =>
          /\ gen.pc = "done" /\ exporting'.result = gen.result
          /\ exporting'.payments = exporting.payments
          /\ Len(exporting'.alerts) = 1
          /\ Has(gen.result, "error") =>
               \E j \in 0..Len(exporting'.alerts[1]) :
                 SubSeq(exporting'.alerts[1], j + 1,
                       Len(exporting'.alerts[1])) = gen.result.error
     /\ exporting'.pc = "await" => exporting'.alerts = <<>>
    ]_vars

\* An export whose write failed has returned: the alert was shown, the list
\* still holds its success record and its record in review.
ExportLeavesListUnchangedWitness ==
  /\ exporting.pc = "done" /\ exporting.result # Null
  /\ ~exporting.result.success /\ Has(exporting.result, "error")
  /\ Len(exporting.alerts) = 1
  /\ Len(files) = 2 /\ SuccessOnly(files) = exporting.payments
  /\ \E j \in 1..Len(files) : IsRecord(files[j]) /\ files[j].status = "needs_review"

-----------------------------------------------------------------------------
(* Claims on the determinism of the encoder, the extraction rules, the      *)
(* list after a clear, manual edits, and the order of parsing               *)

\* The amounts written in the InstdAmt elements, in hundredths.
WrittenAmounts == [j \in 1..Len(Transactions) |-> HundredthsOf(Transactions[j].Amt.InstdAmt._text)]

\* C30: the control sum written in CtrlSum of GrpHdr and of PmtInf is the sum
\* of the amounts as they are written, with two decimals, in the InstdAmt
\* elements of the transactions.
CtrlSumIsSumOfWrittenAmounts ==
  SepaComplete =>
    /\ HundredthsOf(Document.GrpHdr.CtrlSum) = SumOf(WrittenAmounts)
    /\ HundredthsOf(Document.PmtInf.CtrlSum) = SumOf(WrittenAmounts)

\* C27: once the list is empty it gets records again only by the append of a
\* selection (setFiles(prev => [...prev, ...newFiles])), whose records all carry
\* a fileName; no status update or parse result of a document queued or in
\* flight puts an entry into the empty list.
ListStaysEmptyAfterClear ==
  [][files = <<>> /\ files' # <<>> =>
       /\ \E t \in DOMAIN tasks :
            /\ tasks[t].pc = "append" /\ tasks'[t].pc = "mark"
            /\ files' = NewFiles(tasks[t].filePaths)
       /\ \A j \in 1..Len(files') : IsRecord(files'[j]) /\ Has(files'[j], "fileName")]_vars

\* The position in the list of the record the modal was opened on.
EditedAt == editingFile.index + 1

\* C28: the modal opens only on a record whose status is needs_review, and
\* opening it changes no record; when it closes, either no record has changed
\* (cancel) or exactly the record at the opened position has been replaced, that
\* record being still the needs_review record the modal was opened on, and every
\* other record is as it was.
SaveEditReplacesOpenedRecord ==
  [][/\ (editingFile = Null /\ editingFile' # Null) =>
          /\ files' = files
          /\ editingFile'.index + 1 \in 1..Len(files)
          /\ editingFile'.file = files[editingFile'.index + 1]
          /\ editingFile'.file.status = "needs_review"
     /\ (editingFile # Null /\ editingFile' = Null) =>
          \/ files' = files
          \/ /\ EditedAt \in 1..Len(files)
             /\ files[EditedAt] = editingFile.file
             /\ files[EditedAt].status = "needs_review"
             /\ Len(files') = Len(files)
             /\ \A j \in 1..Len(files) : (j # EditedAt /\ IsRecord(files[j])) => files'[j] = files[j]
             /\ IsRecord(files'[EditedAt]) /\ files'[EditedAt].status = "success"]_vars

\* The file names of the documents of invocation t of handleFileSelect.
NamesOf(t) == {FileName(tasks[t].filePaths[k]) : k \in 1..Len(tasks[t].filePaths)}

\* The positions of the records of invocation t that show processing.
ProcessingOf(t) ==
  {j \in 1..Len(files) :
     /\ IsRecord(files[j]) /\ Has(files[j], "fileName") /\ Has(files[j], "status")
     /\ files[j].fileName \in NamesOf(t) /\ files[j].status = "processing"}

\* No document was selected twice, so that a file name tells which invocation
\* a record was created by.
NamesTellSelection ==
  /\ \A t \in DOMAIN tasks : Cardinality(NamesOf(t)) = Len(tasks[t].filePaths)
  /\ \A t, u \in DOMAIN tasks : t # u => NamesOf(t) \cap NamesOf(u) = {}

\* C29: of the records one invocation of handleFileSelect created, at most one
\* is in processing at any time, the next document being set to processing
\* only after the one before it has its terminal status.
OneProcessingPerSelection ==
  NamesTellSelection => \A t \in DOMAIN tasks : Cardinality(ProcessingOf(t)) <= 1

\* s occurs in text at position p with no digit right before it or right after it.
IsolatedAt(text, s, p) ==
  /\ SubSeq(text, p, p + Len(s) - 1) = s
  /\ (p = 1 \/ text[p - 1] \notin Digit)
  /\ (p + Len(s) > Len(text) \/ text[p + Len(s)] \notin Digit)

\* C22: the taxpayer number parse-pdf-file returns is empty, or nine digits that
\* stand in the text with no digit right before or right after them; a text
\* whose digits only form longer numbers gives no taxpayer number.
NifIsIsolatedNineDigits ==
  (Done /\ Has(hresult, "data")) =>
    \/ hresult.data.nif = <<>>
    \/ /\ Len(hresult.data.nif) = 9
       /\ IsDigits(hresult.data.nif)
       /\ \E p \in 1..(Len(htext) - 8) : IsolatedAt(htext, hresult.data.nif, p)

\* The call has returned, without a taxpayer number, for the text that has 11
\* digits after "NIF" and no other number of nine digits.
NifIsIsolatedNineDigitsWitness ==
  /\ Done /\ Has(hresult, "data")
  /\ htext = TextLongNif
  /\ hresult.data.nif = <<>>

\* The text the amount rule captured (amountMatch[1]), empty when no rule matched.
CapturedAmount(text) == GroupOrEmpty(text, AmountMatch(text))

\* Digits, or groups of three digits separated by dots after a first group of
\* one to three digits.
WellFormedInteger(s) ==
  \/ s # <<>> /\ IsDigits(s)
  \/ \E n \in 1..3 :
       /\ Len(s) > n /\ (Len(s) - n) % 4 = 0
       /\ IsDigits(SubSeq(s, 1, n))
       /\ \A k \in 1..((Len(s) - n) \div 4) :
            /\ s[n + 4 * (k - 1) + 1] = "."
            /\ IsDigits(SubSeq(s, n + 4 * (k - 1) + 2, n + 4 * k))

\* A Portuguese decimal: an integer part, one comma, decimals.
WellFormedAmount(raw) ==
  \E c \in 1..Len(raw) :
    /\ raw[c] = ","
    /\ WellFormedInteger(SubSeq(raw, 1, c - 1))
    /\ c < Len(raw) /\ IsDigits(SubSeq(raw, c + 1, Len(raw)))

\* What the handler does with the captured text raw.
MalformedAmountHandled(raw, result, status) ==
  (raw # <<>> /\ ~WellFormedAmount(raw)) =>
    /\ status = "needs_review"
    /\ \E k \in 1..Len(result.missingFields) : result.missingFields[k] = FieldAmount
    /\ Falsy(result.data.amount)

\* C23: when the text an amount rule captured is not a well-formed Portuguese
\* decimal, the record is needs_review, the amount is listed as missing, and no
\* non-zero amount is stored.
MalformedAmountNeedsReview ==
  (Done /\ Has(hresult, "data")) =>
    MalformedAmountHandled(CapturedAmount(htext), hresult, hstatus)

\* The amounts the two currency-symbol rules give on text (symbol after the
\* number, symbol before it).
CurrencyAmounts(text) ==
  {AmountOf(text, m) : m \in {Match(text, ReAmount8), Match(text, ReAmount3)} \ {Fail}}

\* No rule with an "amount due" label matches text, and both a currency-symbol
\* rule and the generic "Total" rule do.
CurrencyAndTotalOnly(text) ==
  /\ FirstMatch(text, <<ReAmount1, ReAmount2, ReAmount7, ReAmount5, ReAmount6>>) = Fail
  /\ Match(text, ReAmount4) # Fail
  /\ CurrencyAmounts(text) # {}

\* C24: when no labeled "amount due" rule matches and the text has both an
\* amount next to a currency symbol and an amount after a generic "Total", the
\* amount returned is the one next to the currency symbol.
CurrencyAmountBeforeGenericTotal ==
  (Done /\ Has(hresult, "data") /\ CurrencyAndTotalOnly(htext)) =>
    hresult.data.amount \in CurrencyAmounts(htext)

\* The 11-digit group of the optical line of text, padded to 15 digits.
OpticalReference(text) == PadStart(Group1(text, Match(text, ReLinhaOptica)), 15, "0")

\* C25: when the text has an optical line with an 11-digit reference group,
\* the paymentReference returned is that group left-padded with zeros to 15
\* digits, and the entity its first three characters, whatever other reference
\* patterns match in the text.
OpticalLineGivesReference ==
  (Done /\ Has(hresult, "data") /\ Match(htext, ReLinhaOptica) # Fail) =>
    /\ hresult.data.paymentReference = OpticalReference(htext)
    /\ Len(hresult.data.paymentReference) = 15
    /\ hresult.data.entity = SubSeq(OpticalReference(htext), 1, 3)

\* The reference rules in their priority order: canonical groups, bare 15
\* digits, labeled header, looser groups, optical line, IVA barcode.
ReferenceRules ==
  <<ReReference1, ReReference2, ReReference3, ReReference4, ReLinhaOptica, ReIvaReference>>

\* The rules that match text.
MatchingRules(text) == {k \in 1..Len(ReferenceRules) : Match(text, ReferenceRules[k]) # Fail}

\* What rule k makes of the group it captured: separators removed, digits only,
\* or left-padded with zeros to 15.
NormalizedBy(k, group) ==
  CASE k \in {1, 4} -> SelectSeq(group, LAMBDA c : c \notin {".", " ", "\n", "\t", "\r"})
    [] k = 2        -> group
    [] k = 3        -> SelectSeq(group, LAMBDA c : c \in Digit)
    [] k \in {5, 6} -> PadStart(group, 15, "0")

\* The value of rule k on text.
ValueOfRule(text, k) == NormalizedBy(k, Group1(text, Match(text, ReferenceRules[k])))

\* reference is value when value has 15 characters, and is empty otherwise.
KeptIfFifteen(value, reference) == reference = IF Len(value) = 15 THEN value ELSE <<>>

\* reference is what the first matching rule alone decides.
FirstRuleDecides(text, matching, reference) ==
  IF matching = {} THEN reference = <<>>
  ELSE KeptIfFifteen(ValueOfRule(text, Least(matching)), reference)

\* C26: the paymentReference returned is the value of the first rule, in
\* priority order, whose pattern matches the text, when that value has exactly
\* 15 characters, and is empty otherwise; a rule of lower priority is not
\* consulted even when it would give a 15-digit reference.
FirstReferenceRuleWins ==
  (Done /\ Has(hresult, "data")) =>
    FirstRuleDecides(htext, MatchingRules(htext), hresult.data.paymentReference)

\* The call has returned with an empty reference for a text in which the looser
\* groups match with 12 digits and the optical line would give 15.
FirstReferenceRuleWinsWitness ==
  /\ Done /\ Has(hresult, "data")
  /\ htext = TextLooseAndOptical
  /\ MatchingRules(htext) = {4, 5, 6}
  /\ Len(ValueOfRule(htext, 4)) = 12
  /\ Len(ValueOfRule(htext, 5)) = 15
  /\ hresult.data.paymentReference = <<>>

\* Both calls of generateSepaXml have returned a document.
BothEncoded ==
  /\ encoded # NoCall /\ Len(encoded.outputs) = 2
  /\ encoded.outputs[1].ok /\ encoded.outputs[2].ok

\* The document with its four values derived from the instant blanked.
WithoutInstant(document) ==
  [document EXCEPT !.GrpHdr.MsgId = <<>>, !.GrpHdr.CreDtTm = <<>>,
                   !.PmtInf.PmtInfId = <<>>, !.PmtInf.ReqdExctnDt = <<>>]

\* The two instants differ, by a millisecond at least.
InstantsDiffer == encoded.nows[1] # encoded.nows[2]

\* C21: two calls of generateSepaXml on the same batch and configuration give
\* the same outcome when made at the same instant; made at different instants
\* they give documents that are equal once MsgId, CreDtTm, PmtInfId and
\* ReqdExctnDt are left out, and whose MsgId and PmtInfId differ; a call that
\* throws, throws at every instant.
EncodingDependsOnInstantOnly ==
  (encoded # NoCall /\ Len(encoded.outputs) = 2) =>
    /\ encoded.outputs[1].ok = encoded.outputs[2].ok
    /\ ~InstantsDiffer => encoded.outputs[1] = encoded.outputs[2]
    /\ ~encoded.outputs[1].ok => encoded.outputs[1] = encoded.outputs[2]
    /\ BothEncoded =>
         /\ WithoutInstant(encoded.outputs[1].document)
              = WithoutInstant(encoded.outputs[2].document)
         /\ InstantsDiffer =>
              /\ encoded.outputs[1].document.GrpHdr.MsgId
                   # encoded.outputs[2].document.GrpHdr.MsgId
              /\ encoded.outputs[1].document.PmtInf.PmtInfId
                   # encoded.outputs[2].document.PmtInf.PmtInfId

\* A batch of three payments has been encoded at two instants one millisecond
\* apart, before and after midnight: the identifiers and the dates differ.
EncodingDependsOnInstantOnlyWitness ==
  /\ BothEncoded /\ Len(encoded.payments) = 3
  /\ encoded.outputs[1].document.GrpHdr.CreDtTm = <<"2", "0", "2", "6", "-", "1", "1", "-",
        "0", "4", "T", "2", "3", ":", "5", "9", ":", "5", "9", ".", "9", "9", "9", "Z">>
  /\ encoded.outputs[2].document.GrpHdr.CreDtTm = <<"2", "0", "2", "6", "-", "1", "1", "-",
        "0", "5", "T", "0", "0", ":", "0", "0", ":", "0", "0", ".", "0", "0", "0", "Z">>
  /\ encoded.outputs[1].document.PmtInf.ReqdExctnDt = <<"2", "0", "2", "6", "-", "1", "1", "-",
        "0", "4">>
  /\ encoded.outputs[2].document.PmtInf.ReqdExctnDt = <<"2", "0", "2", "6", "-", "1", "1", "-",
        "0", "5">>
  /\ encoded.outputs[1].document.GrpHdr.MsgId = <<"M", "S", "G", "-", "1", "7", "9", "3", "8",
        "3", "6", "7", "9", "9", "9", "9", "9">>
  /\ encoded.outputs[2].document.PmtInf.PmtInfId = <<"P", "M", "T", "-", "1", "7", "9", "3",
        "8", "3", "6", "8", "0", "0", "0", "0", "0">>

====
